---- MODULE Spec2Model ----
(***************************************************************************)
(* Funnel analytics and recommendation engine of the recruiting co-pilot:  *)
(* stage normalisation, conversion rates, gap-to-hire, bottleneck, health, *)
(* sourcing allocation, week-over-week trends and recommendation ranking.  *)
(*                                                                         *)
(* Python floats are IEEE-754 binary64 values.  They are modelled exactly: *)
(* a float is s * m * 2^e with a 53-bit mantissa m held as a sequence of   *)
(* 15-bit limbs, and every float operation rounds to nearest, ties to even.*)
(* Overflow, underflow and subnormals are outside the value ranges used.   *)
(***************************************************************************)
EXTENDS Integers, Sequences, FiniteSets, TLC

\* ---------- unbounded naturals: little-endian sequences of 15-bit limbs ----------
LimbBits == 15
LimbBase == 2^LimbBits

RECURSIVE BNorm(_)
BNorm(a) == IF a = <<>> THEN <<>>
            ELSE IF a[Len(a)] = 0 THEN BNorm(SubSeq(a, 1, Len(a) - 1)) ELSE a

RECURSIVE BFromInt(_)
BFromInt(n) == IF n = 0 THEN <<>> ELSE <<n % LimbBase>> \o BFromInt(n \div LimbBase)

RECURSIVE BToInt(_)
BToInt(a) == IF a = <<>> THEN 0 ELSE a[1] + LimbBase * BToInt(Tail(a))

BLimb(a, i) == IF i <= Len(a) THEN a[i] ELSE 0

RECURSIVE BAddFrom(_, _, _, _)
BAddFrom(a, b, i, carry) ==
    IF i > Len(a) /\ i > Len(b)
    THEN IF carry = 0 THEN <<>> ELSE <<carry>>
    ELSE LET t == BLimb(a, i) + BLimb(b, i) + carry
         IN  <<t % LimbBase>> \o BAddFrom(a, b, i + 1, t \div LimbBase)
BAdd(a, b) == BAddFrom(a, b, 1, 0)

RECURSIVE BSubFrom(_, _, _, _)
BSubFrom(a, b, i, borrow) ==
    IF i > Len(a) THEN <<>>
    ELSE LET t == BLimb(a, i) - BLimb(b, i) - borrow
         IN  IF t < 0 THEN <<t + LimbBase>> \o BSubFrom(a, b, i + 1, 1)
                      ELSE <<t>> \o BSubFrom(a, b, i + 1, 0)
\* a - b for a >= b
BSub(a, b) == BNorm(BSubFrom(a, b, 1, 0))

RECURSIVE BCmpFrom(_, _, _)
BCmpFrom(a, b, i) ==
    IF i = 0 THEN 0
    ELSE IF BLimb(a, i) > BLimb(b, i) THEN 1
    ELSE IF BLimb(a, i) < BLimb(b, i) THEN -1
    ELSE BCmpFrom(a, b, i - 1)
BCmp(a, b) == BCmpFrom(a, b, IF Len(a) > Len(b) THEN Len(a) ELSE Len(b))

RECURSIVE BMulSmallFrom(_, _, _, _)
BMulSmallFrom(a, k, i, carry) ==
    IF i > Len(a)
    THEN IF carry = 0 THEN <<>> ELSE <<carry>>
    ELSE LET t == a[i] * k + carry
         IN  <<t % LimbBase>> \o BMulSmallFrom(a, k, i + 1, t \div LimbBase)
\* a * k for 0 <= k < LimbBase
BMulSmall(a, k) == BNorm(BMulSmallFrom(a, k, 1, 0))

BShlLimbs(a, n) == IF a = <<>> THEN <<>> ELSE [i \in 1..n |-> 0] \o a

RECURSIVE BMulFrom(_, _, _)
BMulFrom(a, b, j) ==
    IF j > Len(b) THEN <<>>
    ELSE BAdd(BShlLimbs(BMulSmall(a, b[j]), j - 1), BMulFrom(a, b, j + 1))

\* a * 2^k
BShl(a, k) == BShlLimbs(BMulSmall(a, 2^(k % LimbBits)), k \div LimbBits)

RECURSIVE BShrBitsFrom(_, _, _)
BShrBitsFrom(a, r, i) ==
    IF i > Len(a) THEN <<>>
    ELSE <<(a[i] \div 2^r) + (BLimb(a, i + 1) % 2^r) * 2^(LimbBits - r)>>
         \o BShrBitsFrom(a, r, i + 1)
\* floor(a / 2^k)
BShr(a, k) ==
    LET n == k \div LimbBits
        w == IF n >= Len(a) THEN <<>> ELSE SubSeq(a, n + 1, Len(a))
    IN  BNorm(BShrBitsFrom(w, k % LimbBits, 1))

RECURSIVE SmallBitLen(_)
SmallBitLen(n) == IF n = 0 THEN 0 ELSE 1 + SmallBitLen(n \div 2)
BBitLen(a) == IF a = <<>> THEN 0 ELSE LimbBits * (Len(a) - 1) + SmallBitLen(a[Len(a)])

BBit(a, i) == (BLimb(a, (i \div LimbBits) + 1) \div 2^(i % LimbBits)) % 2

BOdd(a) == a # <<>> /\ a[1] % 2 = 1

\* one step of binary long division: st = <<quotient, remainder>>, next dividend bit
BDivStep(st, bit, b) ==
    LET r2 == BAdd(BMulSmall(st[2], 2), IF bit = 1 THEN <<1>> ELSE <<>>)
        q2 == BMulSmall(st[1], 2)
    IN  IF BCmp(r2, b) >= 0 THEN <<BAdd(q2, <<1>>), BSub(r2, b)>> ELSE <<q2, r2>>

\* bits i down to lo of the dividend a
RECURSIVE BDivBits(_, _, _, _, _)
BDivBits(a, b, i, lo, st) ==
    IF i < lo \/ Len(st) # 2 THEN st
    ELSE BDivBits(a, b, i - 1, lo, BDivStep(st, BBit(a, i), b))

\* the same in runs of LimbBits bits, which bounds the depth of evaluation
RECURSIVE BDivRuns(_, _, _, _)
BDivRuns(a, b, i, st) ==
    IF i < 0 \/ Len(st) # 2 THEN st
    ELSE LET lo == IF i >= LimbBits THEN i - LimbBits + 1 ELSE 0
         IN  BDivRuns(a, b, lo - 1, BDivBits(a, b, i, lo, st))

\* <<floor(a / b), a mod b>> by binary long division, b > 0
BDivMod(a, b) ==
    LET skip == IF BBitLen(a) >= BBitLen(b) THEN BBitLen(b) - 1 ELSE BBitLen(a)
    IN  BDivRuns(a, b, BBitLen(a) - skip - 1, <<<<>>, BShr(a, BBitLen(a) - skip)>>)

\* round-half-even of a / 2^k to a natural
BRoundShr(a, k) ==
    LET \* q = floor(a / 2^k); c compares the remainder with one half
        Nearest(q, c) == IF c > 0 \/ (c = 0 /\ BOdd(q)) THEN BAdd(q, <<1>>) ELSE q
        Remainder(q)  == BSub(a, BShl(q, k))
    IN  IF k <= 0 THEN BShl(a, -k)
        ELSE Nearest(BShr(a, k), BCmp(Remainder(BShr(a, k)), BShl(<<1>>, k - 1)))

\* ---------- IEEE-754 binary64 values: s * m * 2^e, m of exactly 53 bits, or zero ----------
MantBits == 53
FZero == [s |-> 1, m |-> <<>>, e |-> 0]

\* the double nearest to s * n * 2^k (ties to even mantissa)
FRound(s, n, k) ==
    LET l == BBitLen(n)
        \* q is n rounded to 53 bits, or 2^53 when the rounding carried
        Packed(q) == IF BBitLen(q) > MantBits
                     THEN [s |-> s, m |-> BShr(q, 1), e |-> k + (l - MantBits) + 1]
                     ELSE [s |-> s, m |-> q, e |-> k + (l - MantBits)]
    IN  IF n = <<>> THEN FZero
        ELSE IF l <= MantBits
        THEN [s |-> s, m |-> BShl(n, MantBits - l), e |-> k - (MantBits - l)]
        ELSE Packed(BRoundShr(n, l - MantBits))

FFromInt(n) == FRound(IF n < 0 THEN -1 ELSE 1, BFromInt(IF n < 0 THEN -n ELSE n), 0)

FNeg(a) == IF a.m = <<>> THEN a ELSE [a EXCEPT !.s = -a.s]

FMul(a, b) == FRound(a.s * b.s, BMulFrom(a.m, b.m, 1), a.e + b.e)

\* a / b, b # 0: quotient to 57+ bits with a sticky bit, then rounded once
FDiv(a, b) ==
    LET \* qr = <<quotient, remainder>>: the quotient with a sticky last bit
        Sticky(qr) == BAdd(BMulSmall(qr[1], 2), IF qr[2] = <<>> THEN <<>> ELSE <<1>>)
    IN  IF a.m = <<>> THEN FZero
        ELSE FRound(a.s * b.s, Sticky(BDivMod(BShl(a.m, 56), b.m)), a.e - b.e - 57)

FAdd(a, b) ==
    LET lo == IF a.e < b.e THEN a.e ELSE b.e
        \* <<sign, magnitude>> of the exact sum of the mantissas aligned at 2^lo
        Exact(na, nb) == IF a.s = b.s THEN <<a.s, BAdd(na, nb)>>
                         ELSE IF BCmp(na, nb) >= 0 THEN <<a.s, BSub(na, nb)>>
                         ELSE <<b.s, BSub(nb, na)>>
        Rounded(sum) == FRound(sum[1], sum[2], lo)
    IN  IF a.m = <<>> THEN b
        ELSE IF b.m = <<>> THEN a
        ELSE Rounded(Exact(BShl(a.m, a.e - lo), BShl(b.m, b.e - lo)))

FSub(a, b) == FAdd(a, FNeg(b))

\* -1, 0, 1 as a < b, a = b, a > b
FCmp(a, b) == LET Sign(d) == IF d.m = <<>> THEN 0 ELSE d.s IN Sign(FSub(a, b))

\* int(a): truncation toward zero
FTrunc(a) ==
    IF a.m = <<>> THEN 0
    ELSE a.s * BToInt(IF a.e >= 0 THEN BShl(a.m, a.e) ELSE BShr(a.m, -a.e))

\* round(a, 1) in tenths: the exact value of a times ten, rounded half-even
FRoundTenths(a) ==
    IF a.m = <<>> THEN 0
    ELSE a.s * BToInt(BRoundShr(BMulSmall(a.m, 10), -a.e))


\* ---------- rates: a float literal or int/int quotient, named by the fraction it rounds ----------
\* <<n, d>> in lowest terms stands for the double nearest to n / d.  Python's int / int
\* and its float literals are correctly rounded, and the fractions used here are far
\* enough apart that distinct fractions are distinct doubles in the same order.
RECURSIVE Gcd(_, _)
Gcd(a, b) == IF b = 0 THEN a ELSE Gcd(b, a % b)
Rat(n, d) == LET g == Gcd(IF n < 0 THEN -n ELSE n, d) IN <<n \div g, d \div g>>
RatLt(a, b) == a[1] * b[2] < b[1] * a[2]

None  == [none |-> TRUE]
EmptyDict == << >>
Max(a, b) == IF a > b THEN a ELSE b
\* dict.get(k, default)
Get(d, k, default) == IF k \in DOMAIN d THEN d[k] ELSE default

\* ---------- configuration ----------
pipeline_stages ==
    <<"Recruiter Screen", "HM Screen", "Testing", "Onsite", "Offer", "Hired">>
weekly_outreach_capacity == 120
UnknownGap == 999

\* ---------- bounds of the explored inputs ----------
MaxCount == 2
MaxDirectRates == 2
MaxRoles == 3
MaxSaves == 2
MaxCandidates == 3

\* what count_by_stage produces: labels without candidates are absent
CountMaps ==
    LET \* stage labels that carry a varying count; "Phone Chat" is an unmapped pseudo-stage
        VariedLabels == {"Recruiter Screen", "HM Screen", "Testing", "Phone Chat"}
        ExampleCounts ==
            { [s \in {"Recruiter Screen", "HM Screen", "Testing", "Onsite", "Offer", "Hired"} |->
                  CASE s = "Recruiter Screen" -> 20 [] s = "HM Screen" -> 5 [] OTHER -> 0],
              [s \in {"Recruiter Screen", "HM Screen", "Testing", "Onsite", "Offer", "Hired"} |->
                  CASE s = "Recruiter Screen" -> 20 [] s = "HM Screen" -> 10
                    [] s = "Testing" -> 6 [] s = "Onsite" -> 4 [] s = "Offer" -> 2
                    [] OTHER -> 1] }
    IN  { [s \in {l \in VariedLabels : c[l] > 0} |-> c[s]] :
            c \in [VariedLabels -> 0..MaxCount] } \cup ExampleCounts

RateKey(from_stage, to_stage) == from_stage \o "->" \o to_stage
FullStackRates ==
    [k \in {RateKey(pipeline_stages[i], pipeline_stages[i + 1]) : i \in 1..5} |->
        CASE k = "Recruiter Screen->HM Screen" -> Rat(33, 100)
          [] k = "HM Screen->Testing" -> Rat(65, 100)
          [] k = "Testing->Onsite" -> Rat(65, 100)
          [] k = "Onsite->Offer" -> Rat(30, 100)
          [] OTHER -> Rat(80, 100)]
GtmRates ==
    [k \in {RateKey(pipeline_stages[i], pipeline_stages[i + 1]) : i \in 1..5} |->
        CASE k = "Recruiter Screen->HM Screen" -> Rat(40, 100)
          [] k = "HM Screen->Testing" -> Rat(65, 100)
          [] k = "Testing->Onsite" -> Rat(65, 100)
          [] k = "Onsite->Offer" -> Rat(37, 100)
          [] OTHER -> Rat(80, 100)]
\* historical tables handed to calculate_conversion_rates: none, empty, the configured
\* ones, one with a single key, and one whose only key is not a funnel transition
HistTables ==
    { None, EmptyDict, FullStackRates, GtmRates,
      [k \in {"HM Screen->Testing"} |-> Rat(1, 10)],
      [k \in {"Screen->HM"} |-> Rat(42, 100)] }

DirectVals ==
    { Rat(-1, 2), Rat(0, 1), Rat(1, 10), Rat(18, 100), Rat(1, 5), Rat(1, 4),
      Rat(3, 10), Rat(1, 2), Rat(3, 2) }

\* the binary64 value of each rate
FloatOf ==
    LET counts == UNION { {m[s] : s \in DOMAIN m} : m \in CountMaps } \cup {0}
        RateDomain ==
            DirectVals \cup {Rat(1, 20)} \cup {Rat(a, b) : a \in counts, b \in counts \ {0}}
              \cup UNION { {h[k] : k \in DOMAIN h} : h \in HistTables \ {None} }
    IN  [r \in RateDomain |-> FDiv(FFromInt(r[1]), FFromInt(r[2]))]
F(r) == FloatOf[r]

VARIABLES
    stage_counts,      \* dict stage label -> candidate count
    historical_rates,  \* dict "From->To" -> rate, or None
    conversion_rates,  \* ordered dict "From->To" -> rate, as a sequence of <<key, rate>>
    gap_to_hire,       \* result of calculate_gap_to_hire
    bottleneck,        \* result of find_bottleneck
    health_status,     \* result of determine_health_status
    health_gap,        \* the gap handed to determine_health_status
    rates_given,       \* TRUE when the caller supplied the rate map itself
    conv_pc,           \* next step of the conversion model
    role_pipelines,    \* list of RolePipeline handed to calculate_sourcing_allocation
    allocations,       \* dict job_title -> weekly outreaches
    alloc_pc,          \* "idle", "call" or "done"
    gem_snapshots,     \* table gem_snapshots: ISO date text -> snapshot data
    gem_sequence_stats, \* table gem_sequence_stats: <<ISO date text, sequence name>> -> row
    saves,             \* snapshot posts handled so far
    post_request,      \* a GemSnapshotInput waiting to be posted, or None
    post_response,     \* status and detail of the latest snapshot post, or None
    trend_data,        \* result of the latest get_gem_trend_data, None once the store changes
    trend_current,     \* arguments and result of one calc_trend call
    trend_previous,
    trend_record,
    calc_pc,           \* "idle", "call" or "done"
    pipeline_snapshot, \* the PipelineSnapshot handed to generate_recommendations, or None
    recs_passes,       \* the lists of the pipeline, sourcing and combined pass, before the sort
    recommendations,   \* result of generate_recommendations
    activities_for,    \* the for_whom argument of get_daily_activities: None or [text |-> s]
    daily_activities,  \* result of get_daily_activities, or None
    recs_pc,           \* "idle", "call", "done" or "served"
    candidates,        \* the candidates of one job, as the provider client listed them
    stage_label,       \* the argument of one normalize_stage call, None or [text |-> s]
    normalized_label,  \* its result
    stage_tally,       \* result of count_by_stage, or None
    stuck_list,        \* result of get_stuck_candidates, or None
    funnel_pc,         \* "idle", "call", "counted" or "done"
    daily_recommendations, \* table daily_recommendations: its rows in id order
    snapshot_rows,     \* table gem_snapshots row by row: id, snapshot_date, data
    rowid_seq,         \* the largest id table gem_snapshots has handed out (AUTOINCREMENT)
    db_calls,          \* connection -> the save_gem_snapshot call made on it
    db_writer,         \* the connection holding the database's write lock, or 0
    provider,          \* what the applicant tracking system holds: jobs and applications
    provider_calls,    \* the listings asked of the provider so far, with their outcome
    active_jobs,       \* analyze_pipeline: the jobs get_active_jobs returned
    run_roles,         \* analyze_pipeline: role_pipelines, one entry per job analysed
    run_snapshot,      \* the PipelineSnapshot analyze_pipeline returned, or None
    run_pc             \* "idle", "start", "jobs", "done" or "failed"

conv_vars == <<stage_counts, historical_rates, conversion_rates, gap_to_hire, bottleneck,
               health_status, health_gap, rates_given, conv_pc>>
alloc_vars == <<role_pipelines, allocations, alloc_pc>>
store_vars == <<gem_snapshots, gem_sequence_stats, saves, post_request, post_response,
                trend_data>>
calc_vars == <<trend_current, trend_previous, trend_record, calc_pc>>
recs_vars == <<pipeline_snapshot, recs_passes, recommendations, activities_for,
               daily_activities, recs_pc, daily_recommendations>>
funnel_vars == <<candidates, stage_label, normalized_label, stage_tally, stuck_list, funnel_pc>>
upsert_vars == <<snapshot_rows, rowid_seq, db_calls, db_writer>>
run_vars == <<provider, provider_calls, active_jobs, run_roles, run_snapshot, run_pc>>
vars == <<conv_vars, alloc_vars, store_vars, calc_vars, recs_vars, funnel_vars, upsert_vars,
          run_vars>>

\* a component that takes no part in a run
ConvIdle ==
    /\ stage_counts = EmptyDict
    /\ historical_rates = None
    /\ conversion_rates = << >>
    /\ gap_to_hire = 0
    /\ bottleneck = None
    /\ health_status = "unset"
    /\ health_gap = 0
    /\ rates_given = FALSE
    /\ conv_pc = "idle"
AllocIdle ==
    /\ role_pipelines = << >>
    /\ allocations = EmptyDict
    /\ alloc_pc = "idle"
StoreEmpty ==
    /\ gem_snapshots = EmptyDict
    /\ gem_sequence_stats = EmptyDict
    /\ saves = 0
    /\ post_request = None
    /\ post_response = None
    /\ trend_data = None
RecsIdle ==
    /\ pipeline_snapshot = None
    /\ recs_passes = << >>
    /\ recommendations = << >>
    /\ activities_for = None
    /\ daily_activities = None
    /\ recs_pc = "idle"
    /\ daily_recommendations = << >>
CalcIdle ==
    /\ trend_current = 0
    /\ trend_previous = 0
    /\ trend_record = None
    /\ calc_pc = "idle"
\* get_db opens one connection per call
Connections == 1..MaxSaves
UpsertIdle ==
    /\ snapshot_rows = {}
    /\ rowid_seq = 0
    /\ db_calls = [c \in Connections |-> [pc |-> "unopened"]]
    /\ db_writer = 0
RunIdle ==
    /\ provider = None
    /\ provider_calls = << >>
    /\ active_jobs = << >>
    /\ run_roles = << >>
    /\ run_snapshot = None
    /\ run_pc = "idle"
FunnelIdle ==
    /\ candidates = << >>
    /\ stage_label = None
    /\ normalized_label = None
    /\ stage_tally = None
    /\ stuck_list = None
    /\ funnel_pc = "idle"

\* ---------- Conversion Model (analysis.py) ----------
\* variant: the observed ratio is preferred to the historical table
calculate_conversion_rates_observed_first(counts, hist_rates) ==
    LET historical == IF hist_rates = None THEN EmptyDict ELSE hist_rates
        stages     == pipeline_stages
    IN  [i \in 1..(Len(stages) - 1) |->
            LET from_stage == stages[i]
                to_stage   == stages[i + 1]
                key        == RateKey(from_stage, to_stage)
                from_count == Get(counts, from_stage, 0)
                to_count   == Get(counts, to_stage, 0)
            IN  <<key, IF from_count > 0 THEN Rat(to_count, from_count)
                       ELSE IF key \in DOMAIN historical THEN historical[key]
                       ELSE Rat(0, 1)>>]

calculate_conversion_rates(counts, hist_rates) ==
    LET historical == IF hist_rates = None THEN EmptyDict ELSE hist_rates
        stages     == pipeline_stages
    IN  [i \in 1..(Len(stages) - 1) |->
            LET from_stage == stages[i]
                to_stage   == stages[i + 1]
                key        == RateKey(from_stage, to_stage)
                from_count == Get(counts, from_stage, 0)
                to_count   == Get(counts, to_stage, 0)
            IN  <<key, IF key \in DOMAIN historical THEN historical[key]
                       ELSE IF from_count > 0 THEN Rat(to_count, from_count)
                       ELSE Rat(0, 1)>>]

\* variant: a rate <= 0 is multiplied in as it is
RECURSIVE MultiplyRates_unfloored(_, _, _)
MultiplyRates_unfloored(rates, i, total_rate) ==
    IF i > Len(rates) THEN total_rate
    ELSE MultiplyRates_unfloored(rates, i + 1, FMul(total_rate, F(rates[i][2])))

\* the loop of calculate_gap_to_hire: total_rate *= rate, a rate <= 0 taken as 0.05
RECURSIVE MultiplyRates(_, _, _)
MultiplyRates(rates, i, total_rate) ==
    IF i > Len(rates) THEN total_rate
    ELSE LET rate == IF rates[i][2][1] <= 0 THEN Rat(5, 100) ELSE rates[i][2]
         IN  MultiplyRates(rates, i + 1, FMul(total_rate, F(rate)))

\* variant: the quotient is rounded up
calculate_gap_to_hire_ceil(rates) ==
    IF rates = << >> THEN UnknownGap
    ELSE LET total_rate == MultiplyRates(rates, 1, FFromInt(1))
             quotient   == FDiv(FFromInt(1), total_rate)
             whole      == FTrunc(quotient)
         IN  IF FCmp(total_rate, FZero) <= 0 THEN UnknownGap
             ELSE Max(1, IF FCmp(FFromInt(whole), quotient) < 0 THEN whole + 1 ELSE whole)

\* variant: the quotient is not clamped to 1
calculate_gap_to_hire_unclamped(rates) ==
    IF rates = << >> THEN UnknownGap
    ELSE LET total_rate == MultiplyRates(rates, 1, FFromInt(1))
         IN  IF FCmp(total_rate, FZero) <= 0 THEN UnknownGap
             ELSE FTrunc(FDiv(FFromInt(1), total_rate))

calculate_gap_to_hire(rates) ==
    IF rates = << >> THEN UnknownGap
    ELSE LET total_rate == MultiplyRates(rates, 1, FFromInt(1))
         IN  IF FCmp(total_rate, FZero) <= 0 THEN UnknownGap
             ELSE Max(1, FTrunc(FDiv(FFromInt(1), total_rate)))

\* min(conversion_rates, key=conversion_rates.get): the first key of minimal rate
RECURSIVE MinRateIndex(_, _, _)
MinRateIndex(rates, i, best) ==
    IF i > Len(rates) THEN best
    ELSE MinRateIndex(rates, i + 1, IF RatLt(rates[i][2], rates[best][2]) THEN i ELSE best)

\* variant: the last key of minimal rate
RECURSIVE MaxMinRateIndex(_, _, _)
MaxMinRateIndex(rates, i, best) ==
    IF i > Len(rates) THEN best
    ELSE MaxMinRateIndex(rates, i + 1, IF RatLt(rates[best][2], rates[i][2]) THEN best ELSE i)

find_bottleneck_last_tie(rates) ==
    IF rates = << >> THEN None
    ELSE LET worst      == MaxMinRateIndex(rates, 2, 1)
             worst_key  == rates[worst][1]
             worst_rate == rates[worst][2]
         IN  IF RatLt(worst_rate, Rat(25, 100))
             THEN [text |-> worst_key \o " (" \o
                            ToString(FTrunc(FMul(F(worst_rate), FFromInt(100)))) \o "%)"]
             ELSE None

find_bottleneck(rates) ==
    IF rates = << >> THEN None
    ELSE LET worst      == MinRateIndex(rates, 2, 1)
             worst_key  == rates[worst][1]
             worst_rate == rates[worst][2]
         IN  IF RatLt(worst_rate, Rat(25, 100))
             THEN [text |-> worst_key \o " (" \o
                            ToString(FTrunc(FMul(F(worst_rate), FFromInt(100)))) \o "%)"]
             ELSE None

RECURSIVE SumValues(_)
SumValues(d) ==
    IF DOMAIN d = {} THEN 0
    ELSE LET k == CHOOSE x \in DOMAIN d : TRUE
         IN  d[k] + SumValues([x \in DOMAIN d \ {k} |-> d[x]])

\* variant: the gap rules are applied before the rate rule
determine_health_status_gap_first(rates, gap, counts) ==
    LET min_rate == IF rates # << >> THEN rates[MinRateIndex(rates, 2, 1)][2] ELSE Rat(0, 1)
    IN  IF gap > 50 THEN "red"
        ELSE IF gap > 35 THEN "yellow"
        ELSE IF RatLt(min_rate, Rat(20, 100)) THEN "red"
        ELSE IF SumValues(counts) < 5 THEN "yellow"
        ELSE "green"

determine_health_status(rates, gap, counts) ==
    LET min_rate == IF rates # << >> THEN rates[MinRateIndex(rates, 2, 1)][2] ELSE Rat(0, 1)
    IN  IF RatLt(min_rate, Rat(20, 100)) THEN "red"
        ELSE IF gap > 50 THEN "red"
        ELSE IF gap > 35 THEN "yellow"
        ELSE IF SumValues(counts) < 5 THEN "yellow"
        ELSE "green"

\* ---------- the conversion model run on drawn inputs ----------
InitConv ==
    LET \* rate maps handed directly to the gap, bottleneck and health functions
        DirectRateMaps ==
            LET keys == <<"A->B", "B->C", "C->D", "D->E">>
            IN  UNION { { [i \in 1..n |-> <<keys[i], v[i]>>] : v \in [1..n -> DirectVals] }
                        : n \in 0..MaxDirectRates }
        \* stage counts totalling 0, 4, 5 and 10
        DirectCounts ==
            { EmptyDict, [s \in {"Recruiter Screen", "HM Screen"} |-> IF s = "HM Screen" THEN 1 ELSE 3],
              [s \in {"Recruiter Screen", "HM Screen"} |-> IF s = "HM Screen" THEN 1 ELSE 4],
              [s \in {"Recruiter Screen", "Offer"} |-> IF s = "Offer" THEN 4 ELSE 6] }
    IN  /\ \/ /\ conversion_rates \in DirectRateMaps
              /\ stage_counts \in DirectCounts
              /\ historical_rates = None
              /\ rates_given = TRUE
              /\ conv_pc = "gap"
           \/ /\ stage_counts \in CountMaps
              /\ historical_rates \in HistTables
              /\ conversion_rates = << >>
              /\ rates_given = FALSE
              /\ conv_pc = "rates"
        /\ gap_to_hire = 0
        /\ bottleneck = None
        /\ health_status = "unset"
        /\ health_gap = 0
        /\ AllocIdle /\ StoreEmpty /\ CalcIdle /\ RecsIdle /\ FunnelIdle
        /\ UpsertIdle /\ RunIdle

CalculateConversionRates ==
    /\ conv_pc = "rates"
    /\ conversion_rates' = calculate_conversion_rates(stage_counts, historical_rates)
    /\ conv_pc' = "gap"
    /\ UNCHANGED <<stage_counts, historical_rates, gap_to_hire, bottleneck, health_status,
                   health_gap, rates_given>>
    /\ UNCHANGED <<alloc_vars, store_vars, calc_vars, recs_vars, funnel_vars,
                 upsert_vars, run_vars>>

CalculateGapToHire ==
    /\ conv_pc = "gap"
    /\ gap_to_hire' = calculate_gap_to_hire(conversion_rates)
    /\ conv_pc' = "bottleneck"
    /\ UNCHANGED <<stage_counts, historical_rates, conversion_rates, bottleneck,
                   health_status, health_gap, rates_given>>
    /\ UNCHANGED <<alloc_vars, store_vars, calc_vars, recs_vars, funnel_vars,
                 upsert_vars, run_vars>>

FindBottleneck ==
    /\ conv_pc = "bottleneck"
    /\ bottleneck' = find_bottleneck(conversion_rates)
    /\ conv_pc' = "health"
    /\ UNCHANGED <<stage_counts, historical_rates, conversion_rates, gap_to_hire,
                   health_status, health_gap, rates_given>>
    /\ UNCHANGED <<alloc_vars, store_vars, calc_vars, recs_vars, funnel_vars,
                 upsert_vars, run_vars>>

\* analyze_pipeline hands over the gap just computed; a direct caller hands any gap
DetermineHealthStatus ==
    /\ conv_pc = "health"
    /\ \E gap \in {1, 35, 36, 50, 51, gap_to_hire} :
          /\ health_gap' = gap
          /\ health_status' = determine_health_status(conversion_rates, gap, stage_counts)
    /\ conv_pc' = "done"
    /\ UNCHANGED <<stage_counts, historical_rates, conversion_rates, gap_to_hire, bottleneck,
                   rates_given>>
    /\ UNCHANGED <<alloc_vars, store_vars, calc_vars, recs_vars, funnel_vars,
                 upsert_vars, run_vars>>

SpecConv ==
    InitConv /\ [][\/ CalculateConversionRates
                   \/ CalculateGapToHire
                   \/ FindBottleneck
                   \/ DetermineHealthStatus]_vars

\* ---------- Sourcing Allocator (analysis.py) ----------
\* settings.role_priorities, with two further ranks configured below the default three
role_priorities ==
    [t \in {"Senior Full Stack Engineer", "Senior AI Engineer", "GTM Engineer",
            "Sourcer", "Advisor"} |->
        CASE t = "Senior Full Stack Engineer" -> 1
          [] t = "Senior AI Engineer" -> 2
          [] t = "GTM Engineer" -> 3
          [] t = "Sourcer" -> 4
          [] t = "Advisor" -> 5]
\* analyze_pipeline hands over the roles sorted by priority
RoleLists ==
    LET \* role pipelines by the fields the allocator reads
        Role(title, priority, gap, health) ==
            [job_title |-> title, priority |-> priority, gap_to_hire |-> gap, health_status |-> health]
        RoleOf(title, gap, health) == Role(title, role_priorities[title], gap, health)
        RoleChoices ==
            { RoleOf("Senior Full Stack Engineer", 29, "yellow"),
              RoleOf("Senior Full Stack Engineer", 1, "green"),
              RoleOf("Senior AI Engineer", 29, "green"),
              RoleOf("GTM Engineer", 19, "red"),
              RoleOf("GTM Engineer", 150, "red"),
              RoleOf("Sourcer", 29, "yellow"),
              RoleOf("Advisor", 1, "green"),
              RoleOf("Advisor", 150, "red") }
    IN  { l \in UNION { [1..n -> RoleChoices] : n \in 0..MaxRoles } :
            \A i \in 1..(Len(l) - 1) : l[i].priority <= l[i + 1].priority }

\* an insertion-ordered dict as a sequence of <<key, value>>: d[k] = v
RECURSIVE DictSet(_, _, _)
DictSet(d, k, v) ==
    IF d = << >> THEN << <<k, v>> >>
    ELSE IF d[1][1] = k THEN << <<k, v>> >> \o Tail(d)
    ELSE << d[1] >> \o DictSet(Tail(d), k, v)

health_weights == [h \in {"red", "yellow", "green"} |->
                     CASE h = "red" -> 3 [] h = "yellow" -> 2 [] h = "green" -> 1]

\* variant: only two priority ranks carry weight, priority_weight = 3 - priority
RoleScore_two_ranks(pipeline) ==
    LET priority_weight == 3 - pipeline.priority
        Min(x, y)       == IF FCmp(y, x) < 0 THEN y ELSE x
        gap_weight      == Min(FDiv(FFromInt(pipeline.gap_to_hire), FFromInt(20)), FFromInt(5))
        health_weight   == Get(health_weights, pipeline.health_status, 1)
    IN  FMul(FMul(FFromInt(priority_weight), gap_weight), FFromInt(health_weight))

\* the score of one role: priority_weight * gap_weight * health_weight
RoleScore(pipeline) ==
    LET priority_weight == 4 - pipeline.priority
        \* min(x, y): x unless y < x
        Min(x, y)       == IF FCmp(y, x) < 0 THEN y ELSE x
        gap_weight      == Min(FDiv(FFromInt(pipeline.gap_to_hire), FFromInt(20)), FFromInt(5))
        health_weight   == Get(health_weights, pipeline.health_status, 1)
    IN  FMul(FMul(FFromInt(priority_weight), gap_weight), FFromInt(health_weight))

\* the loop filling scores[pipeline.job_title]
RECURSIVE CollectScores(_, _, _)
CollectScores(role_list, i, scores) ==
    IF i > Len(role_list) THEN scores
    ELSE CollectScores(role_list, i + 1,
                       DictSet(scores, role_list[i].job_title, RoleScore(role_list[i])))

\* sum(scores.values()), added left to right from 0
RECURSIVE SumScores(_, _, _)
SumScores(scores, i, acc) ==
    IF i > Len(scores) THEN acc ELSE SumScores(scores, i + 1, FAdd(acc, scores[i][2]))

RECURSIVE SumAllocated(_, _)
SumAllocated(allocs, i) ==
    IF i > Len(allocs) THEN 0 ELSE allocs[i][2] + SumAllocated(allocs, i + 1)

\* min(role_pipelines, key=lambda r: r.priority): the first role of least priority number
RECURSIVE MinPriorityIndex(_, _, _)
MinPriorityIndex(role_list, i, best) ==
    IF i > Len(role_list) THEN best
    ELSE MinPriorityIndex(role_list, i + 1,
                          IF role_list[i].priority < role_list[best].priority THEN i ELSE best)

calculate_sourcing_allocation(role_list) ==
    LET total_capacity == weekly_outreach_capacity
        AsMap(pairs) ==
            [k \in {pairs[i][1] : i \in 1..Len(pairs)} |->
                LET i == CHOOSE j \in 1..Len(pairs) : pairs[j][1] = k IN pairs[i][2]]
        \* allocations[title] = int((score / total_score) * total_capacity)
        Split(scores, total_score) ==
            IF FCmp(total_score, FZero) > 0
            THEN [i \in 1..Len(scores) |->
                    <<scores[i][1],
                      FTrunc(FMul(FDiv(scores[i][2], total_score),
                                  FFromInt(total_capacity)))>>]
            ELSE << >>
        highest_priority == role_list[MinPriorityIndex(role_list, 2, 1)]
        \* the remainder goes to the highest priority role
        Adjust(split, allocated) ==
            IF allocated < total_capacity /\ split # << >>
            THEN [AsMap(split) EXCEPT
                     ![highest_priority.job_title] = @ + (total_capacity - allocated)]
            ELSE AsMap(split)
        Allocate(split) == Adjust(split, SumAllocated(split, 1))
        Scored(scores)  == Allocate(Split(scores, SumScores(scores, 1, FZero)))
    IN  IF role_list = << >> THEN EmptyDict
        ELSE Scored(CollectScores(role_list, 1, << >>))

InitAlloc ==
    /\ role_pipelines \in RoleLists
    /\ allocations = EmptyDict
    /\ alloc_pc = "call"
    /\ ConvIdle /\ StoreEmpty /\ CalcIdle /\ RecsIdle /\ FunnelIdle
    /\ UpsertIdle /\ RunIdle

CalculateSourcingAllocation ==
    /\ alloc_pc = "call"
    /\ allocations' = calculate_sourcing_allocation(role_pipelines)
    /\ alloc_pc' = "done"
    /\ UNCHANGED role_pipelines
    /\ UNCHANGED <<conv_vars, store_vars, calc_vars, recs_vars, funnel_vars,
                 upsert_vars, run_vars>>

SpecAlloc == InitAlloc /\ [][CalculateSourcingAllocation]_vars

\* ---------- Gem snapshot store (database.py, routes.py) ----------
\* dates are day numbers; day 1 is 2024-02-01, so the two trend windows of Today
\* (2024-03-05) straddle the end of February
Today == 34
DaysInFebruary == 29
Digit(n) == CASE n = 0 -> "0" [] n = 1 -> "1" [] n = 2 -> "2" [] n = 3 -> "3" [] n = 4 -> "4"
              [] n = 5 -> "5" [] n = 6 -> "6" [] n = 7 -> "7" [] n = 8 -> "8" [] n = 9 -> "9"
\* date.isoformat(): YYYY-MM-DD as a sequence of characters
isoformat(d) ==
    LET TwoDigits(n) == <<Digit(n \div 10), Digit(n % 10)>>
    IN  <<"2", "0", "2", "4", "-">> \o
        (IF d <= DaysInFebruary THEN TwoDigits(2) ELSE TwoDigits(3)) \o <<"-">> \o
        (IF d <= DaysInFebruary THEN TwoDigits(d) ELSE TwoDigits(d - DaysInFebruary))
\* the byte of a character of an ISO date
CharCode(c) == IF c = "-" THEN 45 ELSE 48 + (CHOOSE n \in 0..9 : Digit(n) = c)
\* SQLite's text comparison: a < b bytewise
RECURSIVE TextLess(_, _)
TextLess(a, b) ==
    IF b = << >> THEN FALSE
    ELSE IF a = << >> THEN TRUE
    ELSE IF CharCode(a[1]) # CharCode(b[1]) THEN CharCode(a[1]) < CharCode(b[1])
    ELSE TextLess(Tail(a), Tail(b))
TextBetween(x, lo, hi) == ~TextLess(x, lo) /\ ~TextLess(hi, x)

\* date.fromisoformat: YYYY-MM-DD naming a day that exists, else ValueError; the day
\* number is given for the months the model's calendar covers, February and March 2024
fromisoformat(date_string) ==
    LET IsDigit(c) == \E n \in 0..9 : Digit(n) = c
        Value(c)   == CHOOSE n \in 0..9 : Digit(n) = c
        Number(i, j) == LET RECURSIVE Read(_, _)
                            Read(k, acc) == IF k > j THEN acc
                                            ELSE Read(k + 1, 10 * acc + Value(date_string[k]))
                        IN  Read(i, 0)
        IsLeap(y) == y % 4 = 0 /\ (y % 100 # 0 \/ y % 400 = 0)
        DaysInMonth(y, m) == IF m = 2 THEN (IF IsLeap(y) THEN 29 ELSE 28)
                             ELSE IF m \in {4, 6, 9, 11} THEN 30 ELSE 31
        Date(y, m, d) ==
            IF y < 1 \/ m \notin 1..12 \/ d < 1 \/ d > DaysInMonth(y, m)
            THEN [error |-> "ValueError"]
            ELSE [date |-> IF m = 2 THEN d ELSE DaysInFebruary + d]
    IN  IF Len(date_string) # 10 THEN [error |-> "ValueError"]
        ELSE IF date_string[5] # "-" \/ date_string[8] # "-" THEN [error |-> "ValueError"]
        ELSE IF \E i \in {1, 2, 3, 4, 6, 7, 9, 10} : ~IsDigit(date_string[i])
        THEN [error |-> "ValueError"]
        ELSE Date(Number(1, 4), Number(6, 7), Number(9, 10))

\* GemSequenceInput
SequenceInput(name, role, sender, sent, opened, replied, bounced) ==
    [sequence_name |-> name, role |-> role, sender |-> sender, sent |-> sent,
     opened |-> opened, replied |-> replied, bounced |-> bounced]
ColdList == << SequenceInput("AI Cold", "AI Engineer", "Blessing", 30, 10, 1, 0) >>
WarmList ==
    << SequenceInput("FS Outreach", "Full Stack", "Blessing", 70, 30, 8, 1),
       SequenceInput("AI Outreach", "AI Engineer", "Drew", 50, 30, 4, 1) >>
HotList ==
    << SequenceInput("FS Outreach", "Full Stack", "Blessing", 60, 20, 12, 0),
       SequenceInput("FS Follow-up", "Full Stack", "Blessing", 40, 20, 8, 1) >>
SequenceLists ==
    { << >>, ColdList, WarmList, HotList,
      << SequenceInput("FS Outreach", "Full Stack", "Blessing", 11496, 5000, 1000, 10) >>,
      << SequenceInput("AI Outreach", "AI Engineer", "Blessing", 10000, 4000, 1250, 20) >> }

ZeroStats == [sent |-> 0, opened |-> 0, replied |-> 0, bounced |-> 0]
AddStats(stats, seq) ==
    [sent |-> stats.sent + seq.sent, opened |-> stats.opened + seq.opened,
     replied |-> stats.replied + seq.replied, bounced |-> stats.bounced + seq.bounced]
\* replied / sent if sent > 0 else 0
ReplyRate(replied, sent) == IF sent > 0 THEN Rat(replied, sent) ELSE Rat(0, 1)
WithReplyRate(stats) ==
    [sent |-> stats.sent, opened |-> stats.opened, replied |-> stats.replied,
     bounced |-> stats.bounced, reply_rate |-> ReplyRate(stats.replied, stats.sent)]

RECURSIVE DictGet(_, _, _)
DictGet(d, k, default) ==
    IF d = << >> THEN default
    ELSE IF d[1][1] = k THEN d[1][2] ELSE DictGet(Tail(d), k, default)

\* the aggregation loop of save_gem_data over data.sequences
RECURSIVE AggregateSequences(_, _, _)
AggregateSequences(sequences, i, acc) ==
    IF i > Len(sequences) THEN acc
    ELSE LET seq == sequences[i]
         IN  AggregateSequences(sequences, i + 1,
               [by_sequence |->
                    DictSet(acc.by_sequence, seq.sequence_name,
                            [sent |-> seq.sent, opened |-> seq.opened,
                             replied |-> seq.replied, bounced |-> seq.bounced,
                             reply_rate |-> ReplyRate(seq.replied, seq.sent),
                             role |-> seq.role, sender |-> seq.sender]),
                by_role |->
                    DictSet(acc.by_role, seq.role,
                            AddStats(DictGet(acc.by_role, seq.role, ZeroStats), seq)),
                by_sender |->
                    DictSet(acc.by_sender, seq.sender,
                            AddStats(DictGet(acc.by_sender, seq.sender, ZeroStats), seq)),
                totals |-> AddStats(acc.totals, seq)])

\* snapshot_data as save_gem_data builds it
SnapshotData(sequences, notes) ==
    LET agg == AggregateSequences(sequences, 1,
                   [by_sequence |-> << >>, by_role |-> << >>, by_sender |-> << >>,
                    totals |-> ZeroStats])
    IN  [by_sequence |-> agg.by_sequence,
         by_role     |-> [i \in 1..Len(agg.by_role) |->
                             <<agg.by_role[i][1], WithReplyRate(agg.by_role[i][2])>>],
         by_sender   |-> [i \in 1..Len(agg.by_sender) |->
                             <<agg.by_sender[i][1], WithReplyRate(agg.by_sender[i][2])>>],
         totals      |-> WithReplyRate(agg.totals),
         notes       |-> notes]

\* save_gem_sequence_stats: INSERT OR REPLACE under UNIQUE(snapshot_date, sequence_name)
RECURSIVE SaveSequenceStats(_, _, _, _)
SaveSequenceStats(table, snapshot_date, sequences, i) ==
    IF i > Len(sequences) THEN table
    ELSE LET seq == sequences[i]
             key == <<isoformat(snapshot_date), seq.sequence_name>>
             row == [role |-> seq.role, sender |-> seq.sender, sent |-> seq.sent,
                     opened |-> seq.opened, replied |-> seq.replied, bounced |-> seq.bounced]
         IN  SaveSequenceStats([k \in DOMAIN table \cup {key} |->
                                   IF k = key THEN row ELSE table[k]],
                               snapshot_date, sequences, i + 1)

\* save_gem_snapshot: UPDATE the row of that date if there is one, else INSERT
save_gem_snapshot(table, snapshot_date, data) ==
    LET key == isoformat(snapshot_date)
    IN  [k \in DOMAIN table \cup {key} |-> IF k = key THEN data ELSE table[k]]

\* ORDER BY snapshot_date ASC over a set of date texts
RECURSIVE SortedDates(_)
SortedDates(S) ==
    IF S = {} THEN << >>
    ELSE LET first == CHOOSE x \in S : \A y \in S \ {x} : TextLess(x, y)
         IN  <<first>> \o SortedDates(S \ {first})

\* a row as the queries return it: the data with data["snapshot_date"] set
RowData(table, key) ==
    LET data == table[key]
    IN  [k \in DOMAIN data \cup {"snapshot_date"} |->
            IF k = "snapshot_date" THEN key ELSE data[k]]

\* variant: WHERE snapshot_date <= ? ORDER BY snapshot_date ASC
get_gem_snapshots_range_open_start(table, start_date, end_date) ==
    LET keys == SortedDates({k \in DOMAIN table : ~TextLess(isoformat(end_date), k)})
    IN  [i \in 1..Len(keys) |-> RowData(table, keys[i])]

\* get_gem_snapshots_range: WHERE snapshot_date BETWEEN ? AND ? ORDER BY snapshot_date ASC
get_gem_snapshots_range(table, start_date, end_date) ==
    LET keys == SortedDates({k \in DOMAIN table :
                                TextBetween(k, isoformat(start_date), isoformat(end_date))})
    IN  [i \in 1..Len(keys) |-> RowData(table, keys[i])]

\* get_latest_gem_snapshot: ORDER BY snapshot_date DESC LIMIT 1
get_latest_gem_snapshot(table) ==
    IF DOMAIN table = {} THEN None
    ELSE LET keys == SortedDates(DOMAIN table) IN RowData(table, keys[Len(keys)])

\* variant: the counters of every snapshot of the window are added up
RECURSIVE SumSnapshots(_, _, _)
SumSnapshots(snapshots, i, acc) ==
    IF i > Len(snapshots) THEN acc
    ELSE SumSnapshots(snapshots, i + 1, AddStats(acc, snapshots[i].totals))
aggregate_snapshots_summed(snapshots) ==
    IF snapshots = << >>
    THEN [sent |-> 0, opened |-> 0, replied |-> 0, bounced |-> 0,
          by_role |-> << >>, by_sender |-> << >>]
    ELSE LET latest == snapshots[Len(snapshots)]
             sum    == SumSnapshots(snapshots, 1, ZeroStats)
         IN  [sent |-> sum.sent, opened |-> sum.opened, replied |-> sum.replied,
              bounced |-> sum.bounced,
              by_role |-> latest.by_role, by_sender |-> latest.by_sender,
              by_sequence |-> latest.by_sequence]

\* aggregate_snapshots: the totals and breakdowns of snapshots[-1]
aggregate_snapshots(snapshots) ==
    IF snapshots = << >>
    THEN [sent |-> 0, opened |-> 0, replied |-> 0, bounced |-> 0,
          by_role |-> << >>, by_sender |-> << >>]
    ELSE LET latest == snapshots[Len(snapshots)]
             totals == Get(latest, "totals", EmptyDict)
         IN  [sent    |-> Get(totals, "sent", 0),
              opened  |-> Get(totals, "opened", 0),
              replied |-> Get(totals, "replied", 0),
              bounced |-> Get(totals, "bounced", 0),
              by_role     |-> Get(latest, "by_role", << >>),
              by_sender   |-> Get(latest, "by_sender", << >>),
              by_sequence |-> Get(latest, "by_sequence", << >>)]

\* the change in percent before rounding: ((current - previous) / previous) * 100
ChangePct(current, previous) ==
    FMul(FDiv(FSub(current, previous), previous), FFromInt(100))

\* variant: the direction is read off the rounded change
calc_trend_rounded_first(current, previous) ==
    IF FCmp(previous, FZero) = 0
    THEN [current |-> current, previous |-> previous,
          change_pct |-> IF FCmp(current, FZero) > 0 THEN 1000 ELSE 0,
          direction  |-> IF FCmp(current, FZero) > 0 THEN "up" ELSE "steady"]
    ELSE LET change_pct == FRoundTenths(ChangePct(current, previous))
         IN  [current |-> current, previous |-> previous,
              change_pct |-> change_pct,
              direction  |-> IF change_pct >= 150 THEN "up"
                             ELSE IF change_pct <= -150 THEN "down"
                             ELSE "steady"]

\* variant: the change is cut to one decimal instead of rounded
calc_trend_truncated(current, previous) ==
    IF FCmp(previous, FZero) = 0
    THEN [current |-> current, previous |-> previous,
          change_pct |-> IF FCmp(current, FZero) > 0 THEN 1000 ELSE 0,
          direction  |-> IF FCmp(current, FZero) > 0 THEN "up" ELSE "steady"]
    ELSE LET change_pct == ChangePct(current, previous)
         IN  [current |-> current, previous |-> previous,
              change_pct |-> FTrunc(FMul(change_pct, FFromInt(10))),
              direction  |-> IF FCmp(change_pct, FFromInt(15)) >= 0 THEN "up"
                             ELSE IF FCmp(change_pct, FFromInt(-15)) <= 0 THEN "down"
                             ELSE "steady"]

\* calc_trend; the field change_pct holds round(change_pct, 1) counted in tenths of a
\* percent (150 is 15.0), current and previous are doubles
calc_trend(current, previous) ==
    IF FCmp(previous, FZero) = 0
    THEN [current |-> current, previous |-> previous,
          change_pct |-> IF FCmp(current, FZero) > 0 THEN 1000 ELSE 0,
          direction  |-> IF FCmp(current, FZero) > 0 THEN "up" ELSE "steady"]
    ELSE LET change_pct == ChangePct(current, previous)
         IN  [current |-> current, previous |-> previous,
              change_pct |-> FRoundTenths(change_pct),
              direction  |-> IF FCmp(change_pct, FFromInt(15)) >= 0 THEN "up"
                             ELSE IF FCmp(change_pct, FFromInt(-15)) <= 0 THEN "down"
                             ELSE "steady"]


get_gem_trend_data(table, today) ==
    LET this_week_start == today - 6
        last_week_start == this_week_start - 7
        last_week_end   == this_week_start - 1
        this_week_data  == get_gem_snapshots_range(table, this_week_start, today)
        last_week_data  == get_gem_snapshots_range(table, last_week_start, last_week_end)
        this_week       == aggregate_snapshots(this_week_data)
        last_week       == aggregate_snapshots(last_week_data)
        \* (replied / sent * 100) if sent > 0 else 0
        ReplyRatePercent(week) ==
            IF week.sent > 0
            THEN FMul(FDiv(FFromInt(week.replied), FFromInt(week.sent)), FFromInt(100))
            ELSE FZero
    IN  [this_week |-> this_week,
         last_week |-> last_week,
         trends |->
            [sent       |-> calc_trend(FFromInt(this_week.sent), FFromInt(last_week.sent)),
             replied    |-> calc_trend(FFromInt(this_week.replied), FFromInt(last_week.replied)),
             reply_rate |-> calc_trend(ReplyRatePercent(this_week), ReplyRatePercent(last_week))],
         has_data    |-> Len(this_week_data) > 0,
         data_points |-> Len(this_week_data)]

InitTrend ==
    /\ StoreEmpty
    /\ ConvIdle /\ AllocIdle /\ CalcIdle /\ RecsIdle /\ FunnelIdle
    /\ UpsertIdle /\ RunIdle

\* save_gem_data on a GemSnapshotInput: the two tables after the call and the response,
\* kept by its status code and detail
save_gem_data(data, stats_table, snapshots_table, today) ==
    LET Store(snapshot_date) ==
            [gem_sequence_stats |->
                 SaveSequenceStats(stats_table, snapshot_date, data.sequences, 1),
             gem_snapshots |->
                 save_gem_snapshot(snapshots_table, snapshot_date,
                                   SnapshotData(data.sequences, data.notes)),
             response |-> [status_code |-> 200, detail |-> "success"]]
        \* except ValueError: raise HTTPException(status_code=400, ...)
        Reject ==
            [gem_sequence_stats |-> stats_table,
             gem_snapshots |-> snapshots_table,
             response |-> [status_code |-> 400,
                           detail |-> "Invalid date format. Use YYYY-MM-DD"]]
        Parsed(parsed) == IF "error" \in DOMAIN parsed THEN Reject ELSE Store(parsed.date)
    IN  \* if data.snapshot_date: ... else: snapshot_date = date.today()
        IF data.snapshot_date = None \/ data.snapshot_date = [text |-> << >>]
        THEN Store(today)
        ELSE Parsed(fromisoformat(data.snapshot_date.text))

\* POST /api/gem/snapshot: the request waiting in post_request if there is one, else a
\* request with a well-formed date or none, on a day around the edges of both windows
SaveGemData ==
    /\ saves < MaxSaves
    /\ \E data \in IF post_request # None THEN {post_request}
                    ELSE [snapshot_date :
                              [text : {isoformat(d) : d \in {Today - 14, Today - 13, Today - 7,
                                                             Today - 6, Today, Today + 1}}]
                                \cup {None},
                          sequences : SequenceLists,
                          notes : {None}] :
          LET Handled(result) ==
                  /\ gem_sequence_stats' = result.gem_sequence_stats
                  /\ gem_snapshots' = result.gem_snapshots
                  /\ post_response' = result.response
          IN  Handled(save_gem_data(data, gem_sequence_stats, gem_snapshots, Today))
    /\ saves' = saves + 1
    /\ trend_data' = None
    /\ UNCHANGED post_request
    /\ UNCHANGED <<conv_vars, alloc_vars, calc_vars, recs_vars, funnel_vars,
                 upsert_vars, run_vars>>

\* GET /api/gem/trends
GetGemTrends ==
    /\ trend_data = None
    /\ trend_data' = get_gem_trend_data(gem_snapshots, Today)
    /\ UNCHANGED <<gem_snapshots, gem_sequence_stats, saves, post_request, post_response>>
    /\ UNCHANGED <<conv_vars, alloc_vars, calc_vars, recs_vars, funnel_vars,
                 upsert_vars, run_vars>>

SpecTrend == InitTrend /\ [][SaveGemData \/ GetGemTrends]_vars

\* ---------- calc_trend on drawn arguments ----------

InitCalc ==
    /\ \E current, previous \in
             {0, 1, 3, 80, 85, 100, 115, 120, 8504, 8505, 10000, 11495, 11496, 11500} :
          /\ trend_current = current
          /\ trend_previous = previous
    /\ trend_record = None
    /\ calc_pc = "call"
    /\ ConvIdle /\ AllocIdle /\ StoreEmpty /\ RecsIdle /\ FunnelIdle
    /\ UpsertIdle /\ RunIdle

CalcTrend ==
    /\ calc_pc = "call"
    /\ trend_record' = calc_trend(FFromInt(trend_current), FFromInt(trend_previous))
    /\ calc_pc' = "done"
    /\ UNCHANGED <<trend_current, trend_previous>>
    /\ UNCHANGED <<conv_vars, alloc_vars, store_vars, recs_vars, funnel_vars,
                 upsert_vars, run_vars>>

SpecCalc == InitCalc /\ [][CalcTrend]_vars

\* ---------- Recommendation Engine (recommendations.py) ----------
Recommendation(for_whom, priority, category, insight, action) ==
    [for_whom |-> for_whom, priority |-> priority, category |-> category,
     insight |-> insight, action |-> action]

\* f"{x:.1f}" of a double x >= 0
FormatTenths(x) ==
    LET t == FRoundTenths(x) IN ToString(t \div 10) \o "." \o ToString(t % 10)
\* f"{x:.0f}" of a double x >= 0: round(x) to a whole number, half-even on the exact value
FormatUnits(x) == ToString(IF x.m = <<>> THEN 0 ELSE x.s * BToInt(BRoundShr(x.m, -x.e)))

\* PipelineStage, Candidate and RolePipeline by the fields the engine reads
Stage(name, count) == [name |-> name, count |-> count]

\* next((s.count for s in role.stages if s.name == name), 0)
RECURSIVE StageCount(_, _, _)
StageCount(stages, name, i) ==
    IF i > Len(stages) THEN 0
    ELSE IF stages[i].name = name THEN stages[i].count
    ELSE StageCount(stages, name, i + 1)

\* variant: the whole list
Take_all(seq, n) == seq
\* seq[:n]
Take(seq, n) == SubSeq(seq, 1, IF Len(seq) < n THEN Len(seq) ELSE n)

\* the recommendations one role contributes, in the order the rules emit them
RolePipelineRecommendations(role) ==
    LET stuck == Take(role.stuck_candidates, 3)
        hm_count == StageCount(role.stages, "HM Screen", 1)
        onsite_count == StageCount(role.stages, "Onsite", 1)
        recruiter_screen_count == StageCount(role.stages, "Recruiter Screen", 1)
    IN  [i \in 1..Len(stuck) |->
            Recommendation("drew", "high", "follow_up",
                stuck[i].name \o " has been in " \o stuck[i].current_stage \o " for "
                    \o ToString(stuck[i].days_in_stage) \o " days",
                "Follow up on " \o stuck[i].name \o " for " \o role.job_title
                    \o " - move forward or archive")]
        \o (IF hm_count > 0
            THEN << Recommendation("drew", "high", "screen",
                       ToString(hm_count) \o " candidate(s) waiting for HM Screen",
                       "Schedule HM screens for " \o role.job_title
                           \o " candidates this week") >>
            ELSE << >>)
        \o (IF onsite_count > 0
            THEN << Recommendation("drew", "medium", "review",
                       ToString(onsite_count) \o " candidate(s) at Onsite stage",
                       "Schedule debrief for " \o role.job_title \o " onsite candidates") >>
            ELSE << >>)
        \o (IF recruiter_screen_count < 5 /\ role.priority = 1
            THEN << Recommendation("blessing", "medium", "sourcing",
                       role.job_title \o " has only " \o ToString(recruiter_screen_count)
                           \o " candidates at top of funnel",
                       "Increase sourcing volume for " \o role.job_title \o " this week") >>
            ELSE << >>)
        \o (IF role.health_status = "red"
            THEN << Recommendation("drew", "medium", "review",
                       role.job_title \o " pipeline is critical (red status)",
                       "Review " \o role.job_title
                           \o " pipeline strategy - consider expanding criteria") >>
            ELSE << >>)

\* the lists a loop appends, concatenated in loop order
RECURSIVE Extend(_, _)
Extend(lists, i) ==
    IF i > Len(lists) THEN << >> ELSE lists[i] \o Extend(lists, i + 1)

generate_pipeline_recommendations(pipeline) ==
    Extend([i \in 1..Len(pipeline.roles) |-> RolePipelineRecommendations(pipeline.roles[i])], 1)

\* the by_role loop: low volume, then low reply rate, per role in dict order
RoleSourcingRecommendations(item) ==
    LET \* (replied / sent * 100) if sent > 0 else 0, of one by_role or by_sender entry
        StatsReplyRate(stats) ==
            LET sent == Get(stats, "sent", 0)
                replied == Get(stats, "replied", 0)
            IN  IF sent > 0 THEN FMul(FDiv(FFromInt(replied), FFromInt(sent)), FFromInt(100))
                ELSE FZero
        role_name == item[1]
        sent == Get(item[2], "sent", 0)
        reply_rate == StatsReplyRate(item[2])
    IN  (IF sent < 40
         THEN << Recommendation("blessing", "medium", "sourcing",
                    role_name \o " only has " \o ToString(sent) \o " outreaches this week",
                    "Allocate more outreach volume to " \o role_name) >>
         ELSE << >>)
        \o (IF FCmp(reply_rate, FFromInt(8)) < 0 /\ sent > 20
            THEN << Recommendation("drew", "low", "review",
                       role_name \o " reply rate is only " \o FormatTenths(reply_rate) \o "%",
                       "Review " \o role_name
                           \o " targeting - are we reaching the right candidates?") >>
            ELSE << >>)

\* the by_sender loop
SenderSourcingRecommendations(item) ==
    LET sender_name == item[1]
        sent == Get(item[2], "sent", 0)
    IN  IF sender_name = "Blessing" /\ sent < 80
        THEN << Recommendation("blessing", "medium", "sourcing",
                   "Blessing has sent " \o ToString(sent) \o " outreaches (target: ~100/week)",
                   "Increase daily outreach cadence") >>
        ELSE << >>

\* max(...) keeps the first item of greatest key
RECURSIVE MaxKeyIndex(_, _, _)
MaxKeyIndex(items, i, best) ==
    LET \* key of max(by_sequence.items(), ...): reply_rate if sent > 10 else 0
        BestKey(item) ==
            IF Get(item[2], "sent", 0) > 10 THEN Get(item[2], "reply_rate", Rat(0, 1)) ELSE Rat(0, 1)
    IN  IF i > Len(items) THEN best
        ELSE MaxKeyIndex(items, i + 1,
                         IF RatLt(BestKey(items[best]), BestKey(items[i])) THEN i ELSE best)

\* the double a stored reply_rate is, times 100
RatePercent(rate) == FMul(FDiv(FFromInt(rate[1]), FFromInt(rate[2])), FFromInt(100))

UnderperformerRecommendations(item) ==
    LET seq_name == item[1]
        sent == Get(item[2], "sent", 0)
        reply_rate == Get(item[2], "reply_rate", Rat(0, 1))
    IN  IF sent > 20 /\ RatLt(reply_rate, Rat(5, 100))
        THEN << Recommendation("blessing", "medium", "review",
                   "'" \o seq_name \o "' has only " \o FormatUnits(RatePercent(reply_rate))
                       \o "% reply rate",
                   "Pause or rewrite this underperforming sequence") >>
        ELSE << >>

generate_sourcing_recommendations(gem_data, gem_trends) ==
    IF ~gem_trends.has_data THEN << >>
    ELSE
    LET this_week   == gem_trends.this_week
        total_sent  == Get(this_week, "sent", 0)
        reply_trend == gem_trends.trends.reply_rate
        by_role     == Get(this_week, "by_role", << >>)
        by_sender   == Get(this_week, "by_sender", << >>)
        by_sequence == Get(this_week, "by_sequence", << >>)
        best_seq    == by_sequence[MaxKeyIndex(by_sequence, 2, 1)]
    IN  (IF total_sent < 100
         THEN << Recommendation("blessing", "high", "sourcing",
                    "Only " \o ToString(total_sent) \o " outreaches this week (target: 120)",
                    "Increase daily outreach volume to hit 120/week target") >>
         ELSE << >>)
        \o (IF reply_trend.direction = "down"
            THEN << Recommendation("drew", "medium", "review",
                       "Reply rate dropped from " \o FormatTenths(reply_trend.previous)
                           \o "% to " \o FormatTenths(reply_trend.current) \o "%",
                       "Review recent outreach messaging - consider refreshing templates"),
                    Recommendation("blessing", "medium", "sourcing",
                       "Reply rate is declining",
                       "Test new subject lines this week") >>
            ELSE << >>)
        \o Extend([i \in 1..Len(by_role) |-> RoleSourcingRecommendations(by_role[i])], 1)
        \o Extend([i \in 1..Len(by_sender) |-> SenderSourcingRecommendations(by_sender[i])], 1)
        \o (IF by_sequence # << >>
            THEN (IF best_seq[1] # "" /\ RatLt(Rat(15, 100), Get(best_seq[2], "reply_rate", Rat(0, 1)))
                  THEN << Recommendation("blessing", "low", "sync",
                             "'" \o best_seq[1] \o "' has "
                                 \o FormatUnits(RatePercent(best_seq[2].reply_rate))
                                 \o "% reply rate",
                             "Clone the messaging approach from this top-performing sequence") >>
                  ELSE << >>)
                 \o Extend([i \in 1..Len(by_sequence) |-> UnderperformerRecommendations(by_sequence[i])], 1)
            ELSE << >>)

generate_combined_recommendations(pipeline, gem_data) ==
    LET by_role == Get(gem_data, "by_role", << >>)
        \* "Full Stack" in job_title
        HasFullStack(job_title) ==
            job_title \in {"Senior Full Stack Engineer", "Full Stack Engineer"}
        RoleCombined(role) ==
            LET gem_role == IF HasFullStack(role.job_title) THEN "Full Stack" ELSE "AI Engineer"
                role_stats == DictGet(by_role, gem_role, EmptyDict)
                sent == Get(role_stats, "sent", 0)
            IN  IF role.health_status \in {"red", "yellow"} /\ sent < 50
                THEN << Recommendation("blessing", "high", "sourcing",
                           role.job_title \o " pipeline is " \o role.health_status
                               \o " and sourcing volume is low (" \o ToString(sent) \o "/week)",
                           "Prioritize " \o role.job_title \o " sourcing - need "
                               \o ToString(role.gap_to_hire) \o " screens to hire") >>
                ELSE << >>
    IN  Extend([i \in 1..Len(pipeline.roles) |-> RoleCombined(pipeline.roles[i])], 1)

\* variant: equal priorities come out in reverse
RECURSIVE SortByPriorityReversing(_)
SortByPriorityReversing(recs) ==
    LET order(r) == CASE r.priority = "high" -> 0 [] r.priority = "medium" -> 1
                      [] r.priority = "low" -> 2 [] OTHER -> 3
        Insert(sorted, r) ==
            LET n == Cardinality({j \in 1..Len(sorted) : order(sorted[j]) < order(r)})
            IN  SubSeq(sorted, 1, n) \o <<r>> \o SubSeq(sorted, n + 1, Len(sorted))
    IN  IF recs = << >> THEN << >>
        ELSE Insert(SortByPriorityReversing(SubSeq(recs, 1, Len(recs) - 1)), recs[Len(recs)])

\* recommendations.sort(key=lambda r: priority_order.get(r.priority, 3)): list.sort is
\* stable; each element in turn goes behind those of key <= its own
RECURSIVE SortByPriority(_)
SortByPriority(recs) ==
    LET order(r) == CASE r.priority = "high" -> 0 [] r.priority = "medium" -> 1
                      [] r.priority = "low" -> 2 [] OTHER -> 3
        Insert(sorted, r) ==
            LET n == Cardinality({j \in 1..Len(sorted) : order(sorted[j]) <= order(r)})
            IN  SubSeq(sorted, 1, n) \o <<r>> \o SubSeq(sorted, n + 1, Len(sorted))
    IN  IF recs = << >> THEN << >>
        ELSE Insert(SortByPriority(SubSeq(recs, 1, Len(recs) - 1)), recs[Len(recs)])

\* the three lists generate_recommendations extends its result by, before the sort
GeneratedPasses(pipeline, table, today) ==
    LET gem_data == get_latest_gem_snapshot(table)
    IN  << IF pipeline # None THEN generate_pipeline_recommendations(pipeline) ELSE << >>,
           IF gem_data # None
           THEN generate_sourcing_recommendations(gem_data, get_gem_trend_data(table, today))
           ELSE << >>,
           IF pipeline # None /\ gem_data # None
           THEN generate_combined_recommendations(pipeline, gem_data)
           ELSE << >> >>

generate_recommendations(pipeline, table, today) ==
    LET passes == GeneratedPasses(pipeline, table, today)
    IN  SortByPriority(passes[1] \o passes[2] \o passes[3])

\* get_daily_activities from the list generate_recommendations returned to it: the
\* optional filter by person, the two groups, and format_activities on each
get_daily_activities(recs, for_whom, today) ==
    LET lower(s) == CASE s = "Drew" -> "drew" [] s = "Blessing" -> "blessing" [] OTHER -> s
        upper(s) == CASE s = "screen" -> "SCREEN" [] s = "follow_up" -> "FOLLOW_UP"
                      [] s = "sourcing" -> "SOURCING" [] s = "review" -> "REVIEW"
                      [] s = "sync" -> "SYNC"
        category_icons(c) ==
            CASE c = "screen" -> "telephone receiver" [] c = "follow_up" -> "high voltage"
              [] c = "sourcing" -> "magnifying glass" [] c = "review" -> "clipboard"
              [] c = "sync" -> "handshake" [] OTHER -> "pushpin"
        Wanted(r) == lower(r.for_whom) = lower(for_whom.text)
        ForDrew(r) == r.for_whom = "drew"
        ForBlessing(r) == r.for_whom = "blessing"
        format_activities(activities) ==
            LET top == Take(activities, 5)
            IN  [i \in 1..Len(top) |->
                    [number |-> i, icon |-> category_icons(top[i].category),
                     category |-> upper(top[i].category), action |-> top[i].action,
                     insight |-> top[i].insight, priority |-> top[i].priority]]
        Grouped(filtered) ==
            [drew |-> format_activities(SelectSeq(filtered, ForDrew)),
             blessing |-> format_activities(SelectSeq(filtered, ForBlessing)),
             total_recommendations |-> Len(filtered),
             generated_at |-> isoformat(today)]
    IN  Grouped(IF for_whom # None /\ for_whom # [text |-> ""]
                THEN SelectSeq(recs, Wanted) ELSE recs)

\* ---------- generate_recommendations on drawn pipelines and stores ----------
RolePipeline(title, priority, stages, stuck, gap, health) ==
    [job_title |-> title, priority |-> priority, stages |-> stages,
     stuck_candidates |-> stuck, gap_to_hire |-> gap, health_status |-> health]
PipelineChoices ==
    LET Candidate(name, current_stage, days_in_stage) ==
            [name |-> name, current_stage |-> current_stage, days_in_stage |-> days_in_stage]
        AllStages(rs, hm, testing, onsite, offer, hired) ==
            << Stage("Recruiter Screen", rs), Stage("HM Screen", hm), Stage("Testing", testing),
               Stage("Onsite", onsite), Stage("Offer", offer), Stage("Hired", hired) >>
        \* roles as analyze_pipeline builds them: the gap and the health follow from the counts
        PipelineRoleChoices ==
            { RolePipeline("Senior Full Stack Engineer", 1, AllStages(3, 2, 0, 1, 0, 0),
                           << Candidate("Ada", "Recruiter Screen", 9),
                              Candidate("Ben", "Recruiter Screen", 6),
                              Candidate("Cy", "HM Screen", 12),
                              Candidate("Di", "HM Screen", 8) >>, 29, "green"),
              RolePipeline("Senior Full Stack Engineer", 1, AllStages(2, 1, 0, 0, 0, 0),
                           << >>, 29, "yellow"),
              RolePipeline("Senior AI Engineer", 2, AllStages(6, 1, 0, 0, 0, 0),
                           << Candidate("Eve", "HM Screen", 10) >>, 29, "green"),
              RolePipeline("GTM Engineer", 3, AllStages(1, 0, 0, 2, 0, 0),
                           << >>, 19, "yellow"),
              RolePipeline("Product Designer", 3, AllStages(20, 5, 0, 0, 0, 0),
                           << Candidate("Flo", "Recruiter Screen", 30),
                              Candidate("Gus", "HM Screen", 14) >>, 639999, "red") }
    IN  {None} \cup
        { [roles |-> l] : l \in
            { l \in UNION { [1..n -> PipelineRoleChoices] : n \in 0..MaxRoles } :
                \A i \in 1..(Len(l) - 1) : l[i].priority <= l[i + 1].priority } }

\* the store after a run of posts
RECURSIVE StoreAfter(_, _, _)
StoreAfter(posts, i, store) ==
    IF i > Len(posts) THEN store
    ELSE StoreAfter(posts, i + 1,
           [gem_sequence_stats |->
                SaveSequenceStats(store.gem_sequence_stats, posts[i].day, posts[i].sequences, 1),
            gem_snapshots |->
                save_gem_snapshot(store.gem_snapshots, posts[i].day,
                                  SnapshotData(posts[i].sequences, None)),
            saves |-> store.saves + 1])
StoreChoices ==
    LET \* a snapshot post: the day and the sequences
        Post(day, sequences) == [day |-> day, sequences |-> sequences]
        PostRuns ==
            { << >>,
              << Post(Today, ColdList) >>,
              << Post(Today - 7, HotList), Post(Today, WarmList) >>,
              << Post(Today - 7, WarmList), Post(Today, HotList) >>,
              << Post(Today - 13, HotList), Post(Today - 6, ColdList) >>,
              << Post(Today - 14, WarmList) >>,
              << Post(Today, << SequenceInput("AI Pilot", "AI Engineer", "Drew", 8, 6, 2, 0),
                                SequenceInput("AI Cold", "AI Engineer", "Blessing", 9, 3, 0, 0) >>) >> }
    IN  { StoreAfter(posts, 1, [gem_sequence_stats |-> EmptyDict, gem_snapshots |-> EmptyDict,
                                saves |-> 0]) : posts \in PostRuns }

InitRecs ==
    /\ pipeline_snapshot \in PipelineChoices
    /\ \E store \in StoreChoices :
          /\ gem_snapshots = store.gem_snapshots
          /\ gem_sequence_stats = store.gem_sequence_stats
          /\ saves = store.saves
          /\ post_request = None
          /\ post_response = IF store.saves = 0 THEN None
                             ELSE [status_code |-> 200, detail |-> "success"]
    /\ trend_data = None
    /\ recs_passes = << >>
    /\ recommendations = << >>
    /\ activities_for = None
    /\ daily_activities = None
    /\ recs_pc = "call"
    /\ daily_recommendations = << >>
    /\ ConvIdle /\ AllocIdle /\ CalcIdle /\ FunnelIdle
    /\ UpsertIdle /\ RunIdle

GenerateRecommendations ==
    /\ recs_pc = "call"
    /\ recs_passes' = GeneratedPasses(pipeline_snapshot, gem_snapshots, Today)
    /\ recommendations' = generate_recommendations(pipeline_snapshot, gem_snapshots, Today)
    /\ recs_pc' = "done"
    /\ UNCHANGED <<pipeline_snapshot, activities_for, daily_activities, daily_recommendations>>
    /\ UNCHANGED <<conv_vars, alloc_vars, store_vars, calc_vars, funnel_vars,
                 upsert_vars, run_vars>>

\* GET /api/activities: the list generate_recommendations returns at the head of
\* get_daily_activities, then the filter, the grouping and the formatting
GetDailyActivities ==
    /\ recs_pc = "call"
    /\ recommendations' = generate_recommendations(pipeline_snapshot, gem_snapshots, Today)
    /\ \E for_whom \in {None, [text |-> ""], [text |-> "Drew"], [text |-> "blessing"]} :
          /\ activities_for' = for_whom
          /\ daily_activities' = get_daily_activities(recommendations', for_whom, Today)
    /\ recs_pc' = "served"
    /\ UNCHANGED <<pipeline_snapshot, recs_passes, daily_recommendations>>
    /\ UNCHANGED <<conv_vars, alloc_vars, store_vars, calc_vars, funnel_vars,
                 upsert_vars, run_vars>>

SpecRecs == InitRecs /\ [][GenerateRecommendations \/ GetDailyActivities]_vars

\* save_daily_recommendations(pipeline): the list generate_recommendations returns, each
\* entry INSERTed into daily_recommendations under today's date by save_recommendation;
\* id is AUTOINCREMENT, completed defaults to FALSE, created_at is left out.  The job may
\* run again on the same day.
SaveDailyRecommendations ==
    /\ recs_pc \in {"call", "saved"}
    /\ recommendations' = generate_recommendations(pipeline_snapshot, gem_snapshots, Today)
    /\ daily_recommendations' =
           daily_recommendations \o
             [i \in 1..Len(recommendations') |->
                 [id |-> Len(daily_recommendations) + i,
                  recommendation_date |-> isoformat(Today),
                  for_whom |-> recommendations'[i].for_whom,
                  priority |-> recommendations'[i].priority,
                  category |-> recommendations'[i].category,
                  insight |-> recommendations'[i].insight,
                  action |-> recommendations'[i].action,
                  completed |-> FALSE]]
    /\ recs_pc' = IF recs_pc = "call" THEN "saved" ELSE "saved again"
    /\ UNCHANGED <<pipeline_snapshot, recs_passes, activities_for, daily_activities>>
    /\ UNCHANGED <<conv_vars, alloc_vars, store_vars, calc_vars, funnel_vars,
                   upsert_vars, run_vars>>

\* the job run on a snapshot of at most one role
InitSaveRecs ==
    /\ InitRecs
    /\ IF pipeline_snapshot = None THEN TRUE ELSE Len(pipeline_snapshot.roles) <= 1

SpecSaveRecs == InitSaveRecs /\ [][SaveDailyRecommendations]_vars

\* ---------- one request posted to a store left by earlier posts ----------
\* the snapshot_date of the request is absent, empty, a day around the edges of the
\* windows, or a text date.fromisoformat does not accept; the last list of sequences
\* names one sequence twice
InitPost ==
    /\ \E store \in StoreChoices :
          /\ store.saves < MaxSaves
          /\ gem_snapshots = store.gem_snapshots
          /\ gem_sequence_stats = store.gem_sequence_stats
          /\ saves = store.saves
          /\ post_response = IF store.saves = 0 THEN None
                             ELSE [status_code |-> 200, detail |-> "success"]
    /\ post_request \in
          [snapshot_date :
               [text : {isoformat(d) : d \in {Today - 14, Today - 13, Today - 7,
                                              Today - 6, Today, Today + 1}}
                         \cup { << >>,
                                 <<"2", "0", "2", "4", "-", "0", "2", "-", "3", "0">>,
                                 <<"2", "0", "2", "4", "-", "1", "3", "-", "0", "1">>,
                                 <<"0", "3", "/", "0", "5", "/", "2", "0", "2", "4">>,
                                 <<"2", "0", "2", "4", "-", "3", "-", "5">>,
                                 <<" ">> }]
                 \cup {None},
           sequences :
               SequenceLists \cup
                 { << SequenceInput("FS Outreach", "Full Stack", "Blessing", 20, 8, 2, 0),
                      SequenceInput("FS Outreach", "Full Stack", "Drew", 10, 4, 1, 1) >> },
           notes : {None}]
    /\ trend_data = None
    /\ ConvIdle /\ AllocIdle /\ CalcIdle /\ RecsIdle /\ FunnelIdle
    /\ UpsertIdle /\ RunIdle

SpecPost == InitPost /\ [][SaveGemData]_vars

\* ---------- Funnel Aggregator (analysis.py, ashby.py) ----------
STAGE_MAPPING ==
    [s \in {"New Lead", "Reached Out", "Replied", "Application Review", "Recruiter Screen",
            "Hiring Manager Screen", "HM Screen", "Testing", "Technical Assessment",
            "Take Home", "Onsite", "Onsite Loop", "Final Interview", "Offer",
            "Offer Extended", "Hired", "Accepted"} |->
        CASE s \in {"New Lead", "Reached Out", "Replied", "Application Review",
                    "Recruiter Screen"} -> "Recruiter Screen"
          [] s \in {"Hiring Manager Screen", "HM Screen"} -> "HM Screen"
          [] s \in {"Testing", "Technical Assessment", "Take Home"} -> "Testing"
          [] s \in {"Onsite", "Onsite Loop", "Final Interview"} -> "Onsite"
          [] s \in {"Offer", "Offer Extended"} -> "Offer"
          [] s \in {"Hired", "Accepted"} -> "Hired"]

\* variant: STAGE_MAPPING.get(ashby_stage, "Unknown")
normalize_stage_or_unknown(ashby_stage) == Get(STAGE_MAPPING, ashby_stage, "Unknown")
\* STAGE_MAPPING.get(ashby_stage, ashby_stage)
normalize_stage(ashby_stage) == Get(STAGE_MAPPING, ashby_stage, ashby_stage)

\* settings.stuck_thresholds, in days
stuck_thresholds ==
    [s \in {"Recruiter Screen", "HM Screen", "Testing", "Onsite", "Offer"} |->
        CASE s = "Recruiter Screen" -> 5 [] s = "HM Screen" -> 7 [] s = "Testing" -> 10
          [] s = "Onsite" -> 5 [] s = "Offer" -> 3]

\* variant: is_stuck is set from days_in_stage >= threshold
FetchedCandidate_at_threshold(id, stage_name, hours_since_entry) ==
    LET days_in_stage == IF hours_since_entry = None THEN 0 ELSE hours_since_entry.hours \div 24
        threshold == Get(stuck_thresholds, stage_name, 0)
    IN  [id |-> id, current_stage |-> stage_name, stage_entered_at |-> hours_since_entry,
         days_in_stage |-> days_in_stage,
         is_stuck |-> (threshold # 0 /\ days_in_stage >= threshold)]

\* the Candidate the provider client builds from an application: the stage title as the
\* provider names it, the time in stage in whole days ((now - stage_entered_at).days, 0
\* without a stage-entry time; here the entry time is given in hours before now), and
\* is_stuck by the threshold of the raw title.  A missing threshold is falsy, as 0 is.
FetchedCandidate(id, stage_name, hours_since_entry) ==
    LET days_in_stage == IF hours_since_entry = None THEN 0 ELSE hours_since_entry.hours \div 24
        threshold == Get(stuck_thresholds, stage_name, 0)
    IN  [id |-> id, current_stage |-> stage_name, stage_entered_at |-> hours_since_entry,
         days_in_stage |-> days_in_stage,
         is_stuck |-> (threshold # 0 /\ days_in_stage > threshold)]

\* variant: counts under the label as given
count_by_stage_raw(candidate_list) ==
    LET normalized(i) == candidate_list[i].current_stage
    IN  [s \in {normalized(i) : i \in 1..Len(candidate_list)} |->
            Cardinality({i \in 1..Len(candidate_list) : normalized(i) = s})]

\* count_by_stage: one count per candidate under its normalized stage
count_by_stage(candidate_list) ==
    LET normalized(i) == normalize_stage(candidate_list[i].current_stage)
    IN  [s \in {normalized(i) : i \in 1..Len(candidate_list)} |->
            Cardinality({i \in 1..Len(candidate_list) : normalized(i) = s})]

\* variant: days_in_stage >= threshold
get_stuck_candidates_at_threshold(candidate_list) ==
    LET Stuck(candidate) ==
            LET threshold == Get(stuck_thresholds, normalize_stage(candidate.current_stage), 0)
            IN  threshold # 0 /\ candidate.days_in_stage >= threshold
        marked == [i \in 1..Len(candidate_list) |->
                      IF Stuck(candidate_list[i])
                      THEN [candidate_list[i] EXCEPT !.is_stuck = TRUE]
                      ELSE candidate_list[i]]
    IN  [stuck |-> SelectSeq(marked, Stuck), candidates |-> marked]

\* get_stuck_candidates: the returned list and the argument list after the call, whose
\* stuck candidates have had is_stuck set
get_stuck_candidates(candidate_list) ==
    LET Stuck(candidate) ==
            LET threshold == Get(stuck_thresholds, normalize_stage(candidate.current_stage), 0)
            IN  threshold # 0 /\ candidate.days_in_stage > threshold
        marked == [i \in 1..Len(candidate_list) |->
                      IF Stuck(candidate_list[i])
                      THEN [candidate_list[i] EXCEPT !.is_stuck = TRUE]
                      ELSE candidate_list[i]]
    IN  [stuck |-> SelectSeq(marked, Stuck), candidates |-> marked]

\* a run takes the candidates the provider lists for one job, or one stage label
InitFunnel ==
    /\ \/ /\ stage_label = None
          /\ \E n \in 0..MaxCandidates :
                \E pick \in [1..n ->
                       { <<"Recruiter Screen", [hours |-> 120]>>,
                         <<"Recruiter Screen", [hours |-> 143]>>,
                         <<"Recruiter Screen", [hours |-> 144]>>,
                         <<"Hiring Manager Screen", [hours |-> 200]>>,
                         <<"HM Screen", [hours |-> 168]>>,
                         <<"Offer", None>>,
                         <<"Offer", [hours |-> 96]>>,
                         <<"Hired", [hours |-> 2400]>>,
                         <<"Phone Chat", [hours |-> 2400]>> }] :
                    candidates = [i \in 1..n |-> FetchedCandidate(i, pick[i][1], pick[i][2])]
       \/ /\ candidates = << >>
          /\ stage_label \in
                [text : DOMAIN STAGE_MAPPING
                          \cup {"Phone Chat", "hm screen", "HIRED", "Unknown", ""}]
    /\ normalized_label = None
    /\ stage_tally = None
    /\ stuck_list = None
    /\ funnel_pc = "call"
    /\ ConvIdle /\ AllocIdle /\ StoreEmpty /\ CalcIdle /\ RecsIdle
    /\ UpsertIdle /\ RunIdle

NormalizeStage ==
    /\ funnel_pc = "call" /\ stage_label # None
    /\ normalized_label' = [text |-> normalize_stage(stage_label.text)]
    /\ funnel_pc' = "done"
    /\ UNCHANGED <<candidates, stage_label, stage_tally, stuck_list>>
    /\ UNCHANGED <<conv_vars, alloc_vars, store_vars, calc_vars, recs_vars,
                 upsert_vars, run_vars>>

\* analyze_pipeline counts the candidates of a job first
CountByStage ==
    /\ funnel_pc = "call" /\ stage_label = None
    /\ stage_tally' = count_by_stage(candidates)
    /\ funnel_pc' = "counted"
    /\ UNCHANGED <<candidates, stage_label, normalized_label, stuck_list>>
    /\ UNCHANGED <<conv_vars, alloc_vars, store_vars, calc_vars, recs_vars,
                 upsert_vars, run_vars>>

\* and collects the stuck ones from the same list afterwards; a direct caller starts here
GetStuckCandidates ==
    /\ funnel_pc \in {"call", "counted"} /\ stage_label = None
    /\ stuck_list' = get_stuck_candidates(candidates).stuck
    /\ candidates' = get_stuck_candidates(candidates).candidates
    /\ funnel_pc' = "done"
    /\ UNCHANGED <<stage_label, normalized_label, stage_tally>>
    /\ UNCHANGED <<conv_vars, alloc_vars, store_vars, calc_vars, recs_vars,
                 upsert_vars, run_vars>>

SpecFunnel == InitFunnel /\ [][NormalizeStage \/ CountByStage \/ GetStuckCandidates]_vars

\* ---------- save_gem_snapshot, statement by statement (database.py) ----------
\* Table gem_snapshots is held row by row here: id INTEGER PRIMARY KEY AUTOINCREMENT,
\* snapshot_date UNIQUE, data.  Every call runs on a connection of its own.  The SELECT
\* reads the committed table; the UPDATE or INSERT opens the transaction and takes the
\* database's write lock, waiting while another connection holds it; leaving get_db
\* commits and closes.  An exception leaves get_db through finally: the connection is
\* closed without commit.  created_at and updated_at are left out.

\* get_gem_snapshot: the data of the row of that date, or None
get_gem_snapshot(rows, snapshot_date) ==
    IF \E r \in rows : r.snapshot_date = isoformat(snapshot_date)
    THEN (CHOOSE r \in rows : r.snapshot_date = isoformat(snapshot_date)).data
    ELSE None

\* variant: INSERT OR REPLACE INTO gem_snapshots (snapshot_date, data), whatever the
\* SELECT found
save_gem_snapshot_write_or_replace(rows, last_rowid, existing, snapshot_date, data) ==
    [rows |-> {r \in rows : r.snapshot_date # isoformat(snapshot_date)}
                \cup {[id |-> last_rowid + 1, snapshot_date |-> isoformat(snapshot_date),
                       data |-> data]},
     rowid_seq |-> last_rowid + 1,
     returned |-> [id |-> last_rowid + 1]]

\* the statement save_gem_snapshot runs after its SELECT, on the table as it is by then:
\* UPDATE ... WHERE snapshot_date = ? if the SELECT found a row, else INSERT, which
\* UNIQUE(snapshot_date) refuses if the date has a row; with the value the call returns
save_gem_snapshot_write(rows, last_rowid, existing, snapshot_date, data) ==
    IF existing # None
    THEN [rows |-> {IF r.snapshot_date = isoformat(snapshot_date)
                    THEN [r EXCEPT !.data = data] ELSE r : r \in rows},
          rowid_seq |-> last_rowid,
          returned |-> [id |-> existing.id]]
    ELSE IF \E r \in rows : r.snapshot_date = isoformat(snapshot_date)
    THEN [rows |-> rows, rowid_seq |-> last_rowid, returned |-> [error |-> "IntegrityError"]]
    ELSE [rows |-> rows \cup {[id |-> last_rowid + 1,
                               snapshot_date |-> isoformat(snapshot_date), data |-> data]},
          rowid_seq |-> last_rowid + 1,
          returned |-> [id |-> last_rowid + 1]]

\* with get_db() as conn: SELECT id FROM gem_snapshots WHERE snapshot_date = ?
SelectExisting(c) ==
    /\ db_calls[c].pc = "unopened"
    /\ \E snapshot_date \in {Today - 1, Today},
          data \in {SnapshotData(ColdList, None), SnapshotData(WarmList, None)} :
          db_calls' =
              [db_calls EXCEPT ![c] =
                  [pc |-> "selected", snapshot_date |-> snapshot_date, data |-> data,
                   existing |->
                       IF \E r \in snapshot_rows : r.snapshot_date = isoformat(snapshot_date)
                       THEN [id |-> (CHOOSE r \in snapshot_rows :
                                        r.snapshot_date = isoformat(snapshot_date)).id]
                       ELSE None]]
    /\ UNCHANGED <<snapshot_rows, rowid_seq, db_writer>>
    /\ UNCHANGED <<conv_vars, alloc_vars, store_vars, calc_vars, recs_vars, funnel_vars,
                   run_vars>>

\* the UPDATE or the INSERT, once no other connection holds the write lock
WriteSnapshot(c) ==
    /\ db_calls[c].pc = "selected"
    /\ db_writer = 0
    /\ LET Written(w) ==
               IF w.returned = [error |-> "IntegrityError"]
               THEN /\ db_calls' = [db_calls EXCEPT ![c].pc = "failed"]
                    /\ UNCHANGED db_writer
               ELSE /\ db_calls' = [db_calls EXCEPT ![c] =
                                       [pc |-> "written",
                                        snapshot_date |-> db_calls[c].snapshot_date,
                                        data |-> db_calls[c].data,
                                        existing |-> db_calls[c].existing,
                                        written |-> w]]
                    /\ db_writer' = c
       IN  Written(save_gem_snapshot_write(snapshot_rows, rowid_seq, db_calls[c].existing,
                                           db_calls[c].snapshot_date, db_calls[c].data))
    /\ UNCHANGED <<snapshot_rows, rowid_seq>>
    /\ UNCHANGED <<conv_vars, alloc_vars, store_vars, calc_vars, recs_vars, funnel_vars,
                   run_vars>>

\* return ..., conn.commit(), conn.close()
CommitAndClose(c) ==
    /\ db_calls[c].pc = "written"
    /\ snapshot_rows' = db_calls[c].written.rows
    /\ rowid_seq' = db_calls[c].written.rowid_seq
    /\ db_writer' = 0
    /\ db_calls' = [db_calls EXCEPT ![c].pc = "returned"]
    /\ UNCHANGED <<conv_vars, alloc_vars, store_vars, calc_vars, recs_vars, funnel_vars,
                   run_vars>>

\* the calls start from the tables init_database creates
SpecUpsert ==
    InitTrend /\ [][\E c \in Connections :
                       SelectExisting(c) \/ WriteSnapshot(c) \/ CommitAndClose(c)]_vars

\* ---------- analyze_pipeline against a provider (analysis.py, ashby.py) ----------
\* The provider holds jobs, each with its applications; a listing call (_post followed by
\* raise_for_status) returns the provider's answer or raises.  Every listing fits one
\* page.  An application is <<stage title, hours since the stage was entered, status>>.

\* get_jobs keeps the jobs whose status is "Open"; get_active_jobs keeps of those the
\* ones whose title contains an active title, letter case aside
get_active_jobs(job_list) ==
    LET \* settings.active_roles
        active_roles == <<"Senior Full Stack Engineer", "Senior AI Engineer", "GTM Engineer">>
        \* the characters of the job titles met here
        TitleText ==
            [t \in {"Senior Full Stack Engineer", "Senior AI Engineer", "GTM Engineer",
                    "staff gtm engineer (EMEA)", "Product Designer"} |->
                CASE t = "Senior Full Stack Engineer" ->
                    <<"S", "e", "n", "i", "o", "r", " ", "F", "u", "l", "l", " ", "S", "t", "a",
                      "c", "k", " ", "E", "n", "g", "i", "n", "e", "e", "r">>
                [] t = "Senior AI Engineer" ->
                    <<"S", "e", "n", "i", "o", "r", " ", "A", "I", " ", "E", "n", "g", "i", "n",
                      "e", "e", "r">>
                [] t = "GTM Engineer" ->
                    <<"G", "T", "M", " ", "E", "n", "g", "i", "n", "e", "e", "r">>
                [] t = "staff gtm engineer (EMEA)" ->
                    <<"s", "t", "a", "f", "f", " ", "g", "t", "m", " ", "e", "n", "g", "i", "n",
                      "e", "e", "r", " ", "(", "E", "M", "E", "A", ")">>
                [] t = "Product Designer" ->
                    <<"P", "r", "o", "d", "u", "c", "t", " ", "D", "e", "s", "i", "g", "n", "e",
                      "r">>]
        \* str.lower on a sequence of characters
        lower(text) ==
            LET upper == <<"A", "B", "C", "D", "E", "F", "G", "H", "I", "J", "K", "L", "M",
                           "N", "O", "P", "Q", "R", "S", "T", "U", "V", "W", "X", "Y", "Z">>
                small == <<"a", "b", "c", "d", "e", "f", "g", "h", "i", "j", "k", "l", "m",
                           "n", "o", "p", "q", "r", "s", "t", "u", "v", "w", "x", "y", "z">>
            IN  [i \in 1..Len(text) |->
                    IF \E k \in 1..26 : upper[k] = text[i]
                    THEN small[CHOOSE k \in 1..26 : upper[k] = text[i]]
                    ELSE text[i]]
        Contains(text, part) ==
            \E at \in 0..(Len(text) - Len(part)) : SubSeq(text, at + 1, at + Len(part)) = part
        Job(id, title, status) == [id |-> id, title |-> title, status |-> status]
        IsOpen(job_data) == job_data.status = "Open"
        IsActive(job) ==
            \E k \in 1..Len(active_roles) :
                Contains(lower(TitleText[job.title]), lower(TitleText[active_roles[k]]))
        all_jobs == SelectSeq(job_list, IsOpen)
    IN  SelectSeq([i \in 1..Len(all_jobs) |->
                      Job(all_jobs[i].id, all_jobs[i].title, all_jobs[i].status)], IsActive)

\* variant: a failed application listing is taken as an empty one
get_candidates_for_job_or_none(job_data, outcome) ==
    LET NotArchived(app) == app[3] # "Archived"
        applications == SelectSeq(job_data.applications, NotArchived)
    IN  IF outcome = "error" THEN [candidates |-> << >>]
        ELSE [candidates |-> [i \in 1..Len(applications) |->
                                 FetchedCandidate(i, applications[i][1], applications[i][2])]]

\* get_candidates_for_job: one Candidate per application that is not archived, or the
\* error the listing raised
get_candidates_for_job(job_data, outcome) ==
    LET NotArchived(app) == app[3] # "Archived"
        applications == SelectSeq(job_data.applications, NotArchived)
    IN  IF outcome = "error" THEN [error |-> "HTTPStatusError"]
        ELSE [candidates |-> [i \in 1..Len(applications) |->
                                 FetchedCandidate(i, applications[i][1], applications[i][2])]]

\* the body of the loop over the active jobs: the RolePipeline of one job
analyze_job(job, candidate_list) ==
    LET \* the historical_rates table of analyze_pipeline, by job title
        role_historical_rates ==
            [t \in {"Senior Full Stack Engineer", "Senior AI Engineer", "GTM Engineer"} |->
                IF t = "GTM Engineer" THEN GtmRates ELSE FullStackRates]
        Built(counts, rates, gap) ==
            [job_id |-> job.id,
             total_candidates |-> Len(candidate_list),
             conversion_rates |-> rates,
             bottleneck |-> find_bottleneck(rates)]
              @@ RolePipeline(job.title,
                              Get(role_priorities, job.title, 3),
                              [i \in 1..Len(pipeline_stages) |->
                                  Stage(pipeline_stages[i], Get(counts, pipeline_stages[i], 0))],
                              get_stuck_candidates(candidate_list).stuck,
                              gap,
                              determine_health_status(rates, gap, counts))
        Rated(counts, rates) == Built(counts, rates, calculate_gap_to_hire(rates))
        Counted(counts) ==
            Rated(counts,
                  calculate_conversion_rates(counts,
                                             Get(role_historical_rates, job.title, EmptyDict)))
    IN  Counted(count_by_stage(candidate_list))

\* variant: equal priorities come out in reverse
RECURSIVE sort_by_priority_reversing(_)
sort_by_priority_reversing(role_list) ==
    LET Insert(sorted, r) ==
            LET n == Cardinality({j \in 1..Len(sorted) : sorted[j].priority < r.priority})
            IN  SubSeq(sorted, 1, n) \o <<r>> \o SubSeq(sorted, n + 1, Len(sorted))
    IN  IF role_list = << >> THEN << >>
        ELSE Insert(sort_by_priority_reversing(SubSeq(role_list, 1, Len(role_list) - 1)),
                    role_list[Len(role_list)])

\* role_pipelines.sort(key=lambda r: r.priority): list.sort is stable
RECURSIVE sort_by_priority(_)
sort_by_priority(role_list) ==
    LET Insert(sorted, r) ==
            LET n == Cardinality({j \in 1..Len(sorted) : sorted[j].priority <= r.priority})
            IN  SubSeq(sorted, 1, n) \o <<r>> \o SubSeq(sorted, n + 1, Len(sorted))
    IN  IF role_list = << >> THEN << >>
        ELSE Insert(sort_by_priority(SubSeq(role_list, 1, Len(role_list) - 1)),
                    role_list[Len(role_list)])

\* the provider lists up to MaxRoles jobs, with ids in the order of its listing
InitAnalyze ==
    /\ \E n \in 0..MaxRoles :
          \E pick \in [1..n ->
                 { [title |-> "Senior Full Stack Engineer", status |-> "Open",
                    applications |-> << <<"Recruiter Screen", [hours |-> 144], "Active">>,
                                        <<"Hiring Manager Screen", [hours |-> 200], "Active">>,
                                        <<"Onsite", [hours |-> 480], "Archived">> >>],
                   [title |-> "Senior AI Engineer", status |-> "Closed",
                    applications |-> << <<"Offer", [hours |-> 24], "Active">> >>],
                   [title |-> "GTM Engineer", status |-> "Open",
                    applications |-> << <<"Offer", [hours |-> 96], "Active">>,
                                        <<"Phone Chat", [hours |-> 2400], "Active">> >>],
                   [title |-> "staff gtm engineer (EMEA)", status |-> "Open",
                    applications |-> << >>],
                   [title |-> "Product Designer", status |-> "Open",
                    applications |-> << <<"Recruiter Screen", [hours |-> 240], "Active">> >>] }] :
              provider = [jobs |-> [i \in 1..n |-> [id |-> i] @@ pick[i]]]
    /\ provider_calls = << >>
    /\ active_jobs = << >>
    /\ run_roles = << >>
    /\ run_snapshot = None
    /\ run_pc = "start"
    /\ ConvIdle /\ AllocIdle /\ StoreEmpty /\ CalcIdle /\ RecsIdle /\ FunnelIdle
    /\ UpsertIdle

\* active_jobs = await client.get_active_jobs(): an error leaves analyze_pipeline
GetActiveJobs ==
    /\ run_pc = "start"
    /\ \E outcome \in {"ok", "error"} :
          /\ provider_calls' = Append(provider_calls,
                                      [endpoint |-> "job.list", job_id |-> 0,
                                       outcome |-> outcome])
          /\ IF outcome = "error"
             THEN /\ run_pc' = "failed"
                  /\ UNCHANGED active_jobs
             ELSE /\ active_jobs' = get_active_jobs(provider.jobs)
                  /\ run_pc' = "jobs"
    /\ UNCHANGED <<provider, run_roles, run_snapshot>>
    /\ UNCHANGED <<conv_vars, alloc_vars, store_vars, calc_vars, recs_vars, funnel_vars,
                   upsert_vars>>

\* one pass of the loop: the candidates of the next job are listed and its RolePipeline
\* is appended; an error of the listing leaves analyze_pipeline
AnalyzeNextJob ==
    /\ run_pc = "jobs" /\ Len(run_roles) < Len(active_jobs)
    /\ \E outcome \in {"ok", "error"} :
          LET job    == active_jobs[Len(run_roles) + 1]
              listed == get_candidates_for_job(provider.jobs[job.id], outcome)
          IN  /\ provider_calls' = Append(provider_calls,
                                          [endpoint |-> "application.list", job_id |-> job.id,
                                           outcome |-> outcome])
              /\ IF "error" \in DOMAIN listed
                 THEN /\ run_pc' = "failed"
                      /\ UNCHANGED run_roles
                 ELSE /\ run_roles' = Append(run_roles, analyze_job(job, listed.candidates))
                      /\ UNCHANGED run_pc
    /\ UNCHANGED <<provider, active_jobs, run_snapshot>>
    /\ UNCHANGED <<conv_vars, alloc_vars, store_vars, calc_vars, recs_vars, funnel_vars,
                   upsert_vars>>

\* after the loop: the sort, the allocation and the PipelineSnapshot (generated_at is
\* left out)
ReturnSnapshot ==
    /\ run_pc = "jobs" /\ Len(run_roles) = Len(active_jobs)
    /\ run_roles' = sort_by_priority(run_roles)
    /\ run_snapshot' = [roles |-> run_roles',
                        sourcing_allocation |-> calculate_sourcing_allocation(run_roles')]
    /\ run_pc' = "done"
    /\ UNCHANGED <<provider, provider_calls, active_jobs>>
    /\ UNCHANGED <<conv_vars, alloc_vars, store_vars, calc_vars, recs_vars, funnel_vars,
                   upsert_vars>>

SpecAnalyze == InitAnalyze /\ [][GetActiveJobs \/ AnalyzeNextJob \/ ReturnSnapshot]_vars

(***************************************************************************)
(* Properties                                                              *)
(***************************************************************************)
\* the exact score of a role, times 20: (4 - priority) * min(gap, 100) * health weight
Score20(r) ==
    (4 - r.priority) * (IF r.gap_to_hire > 100 THEN 100 ELSE r.gap_to_hire)
       * (CASE r.health_status = "red" -> 3 [] r.health_status = "yellow" -> 2 [] OTHER -> 1)
Titles(role_list) == {role_list[i].job_title : i \in 1..Len(role_list)}
\* the role whose score a title keeps: the last one in the list
LastWith(role_list, t) ==
    role_list[CHOOSE i \in 1..Len(role_list) :
                 /\ role_list[i].job_title = t
                 /\ \A j \in (i + 1)..Len(role_list) : role_list[j].job_title # t]
RECURSIVE SumOver(_, _)
SumOver(f, S) ==
    IF S = {} THEN 0 ELSE LET x == CHOOSE y \in S : TRUE IN f[x] + SumOver(f, S \ {x})
TotalScore20(role_list) ==
    SumOver([t \in Titles(role_list) |-> Score20(LastWith(role_list, t))], Titles(role_list))
NoNegativeScore(role_list) ==
    \A t \in Titles(role_list) : Score20(LastWith(role_list, t)) >= 0
Allocated == SumOver(allocations, DOMAIN allocations)

\* C1 as stated: for every non-empty list of role pipelines, whatever the priorities, gaps
\* and health values, zero or negative score totals included, the allocations sum to
\* exactly 120; for an empty list the map is empty.
C1_AlwaysSumsToCapacity ==
    alloc_pc = "done" =>
        IF role_pipelines = << >> THEN allocations = EmptyDict
        ELSE Allocated = weekly_outreach_capacity

\* what the allocator does instead: the map is empty for an empty list and whenever the
\* scores total <= 0; when they total > 0 every title has an entry and the entries sum to
\* at least 120, and to exactly 120 when no score is negative.
C1_SumsToCapacityWhenPositive ==
    alloc_pc = "done" =>
        IF role_pipelines = << >> \/ TotalScore20(role_pipelines) <= 0
        THEN allocations = EmptyDict
        ELSE /\ DOMAIN allocations = Titles(role_pipelines)
             /\ Allocated >= weekly_outreach_capacity
             /\ NoNegativeScore(role_pipelines) => Allocated = weekly_outreach_capacity
\* a negative score beside a larger positive one: the entries sum to 121
C1_OverCapacityWitness ==
    /\ alloc_pc = "done"
    /\ Allocated > weekly_outreach_capacity

\* the change of the drawn arguments, exactly: 100 * (current - previous) / previous
ChangeTimesPrevious == 100 * (trend_current - trend_previous)

\* C7 as stated: in every trend record the direction agrees with the change_pct field of
\* the same record: "up" iff change_pct >= 15, "down" iff change_pct <= -15, "steady"
\* otherwise (also when the unrounded change lies just below 15, as for 11496 after 10000).
C7_DirectionAgreesWithField ==
    calc_pc = "done" =>
        /\ trend_record.direction = "up" <=> trend_record.change_pct >= 150
        /\ trend_record.direction = "down" <=> trend_record.change_pct <= -150
        /\ trend_record.direction \in {"up", "down", "steady"}

\* C7 amended: the direction is decided by the change before it is rounded: "up" iff the
\* change is >= 15, "down" iff it is <= -15, "steady" otherwise (previous = 0: "up" iff
\* current > 0); the change_pct field, rounded to one decimal, is >= 15 when "up", <= -15
\* when "down" and within [-15, 15] when "steady", so it can read 15.0 beside "steady".
C7_DirectionFromUnroundedChange ==
    calc_pc = "done" =>
        /\ trend_record.direction =
              (IF trend_previous = 0
               THEN (IF trend_current > 0 THEN "up" ELSE "steady")
               ELSE IF ChangeTimesPrevious >= 15 * trend_previous THEN "up"
               ELSE IF ChangeTimesPrevious <= -15 * trend_previous THEN "down"
               ELSE "steady")
        /\ trend_record.direction = "up" => trend_record.change_pct >= 150
        /\ trend_record.direction = "down" => trend_record.change_pct <= -150
        /\ trend_record.direction = "steady" =>
               (trend_record.change_pct >= -150 /\ trend_record.change_pct <= 150)
\* 11496 after 10000: the change 14.96 is steady and is reported as 15.0
C7_Witness ==
    /\ calc_pc = "done"
    /\ trend_current = 11496 /\ trend_previous = 10000
    /\ trend_record.direction = "steady"
    /\ trend_record.change_pct = 150

\* C8 as stated: change_pct is (current - previous) / previous * 100 for previous # 0,
\* and for previous = 0 it is 100 when current > 0 and 0 otherwise; trend(0, 0) gives 0
\* and steady, trend(120, 100) 20.0 and up, trend(80, 100) -20.0 and down, trend(c, 0)
\* with c > 0 gives 100 and up.
C8_ChangePctIsTheRatio ==
    calc_pc = "done" =>
        /\ trend_previous # 0 =>
              trend_record.change_pct * trend_previous = 10 * ChangeTimesPrevious
        /\ trend_previous = 0 =>
              trend_record.change_pct = (IF trend_current > 0 THEN 1000 ELSE 0)

\* C8 amended: for previous # 0 the change_pct field is (current - previous) / previous
\* * 100 rounded to one decimal; for previous = 0 it is 100 when current > 0 and 0
\* otherwise; the four examples come out as stated.
C8_ChangePctRoundedToTenth ==
    calc_pc = "done" =>
        /\ trend_previous # 0 =>
              LET off == trend_record.change_pct * trend_previous - 10 * ChangeTimesPrevious
              IN  2 * off <= trend_previous /\ -2 * off <= trend_previous
        /\ trend_previous = 0 =>
              /\ trend_record.change_pct = (IF trend_current > 0 THEN 1000 ELSE 0)
              /\ trend_record.direction = (IF trend_current > 0 THEN "up" ELSE "steady")
        /\ (trend_current = 120 /\ trend_previous = 100) =>
              (trend_record.change_pct = 200 /\ trend_record.direction = "up")
        /\ (trend_current = 80 /\ trend_previous = 100) =>
              (trend_record.change_pct = -200 /\ trend_record.direction = "down")
\* 1 after 3: the change -66.66... is reported as -66.7
C8_Witness ==
    /\ calc_pc = "done"
    /\ trend_current = 1 /\ trend_previous = 3
    /\ trend_record.change_pct = -667

\* the day an ISO date text stands for
DayOf(text) == CHOOSE d \in (Today - 20)..(Today + 5) : isoformat(d) = text
StoredDays == {DayOf(k) : k \in DOMAIN gem_snapshots}
ThisWeekDays == {d \in StoredDays : Today - 6 <= d /\ d <= Today}
LastWeekDays == {d \in StoredDays : Today - 13 <= d /\ d <= Today - 7}
LatestDay(days) == CHOOSE d \in days : \A e \in days : e <= d
\* what a window must aggregate to
ExpectedAggregate(days) ==
    IF days = {}
    THEN [sent |-> 0, opened |-> 0, replied |-> 0, bounced |-> 0,
          by_role |-> << >>, by_sender |-> << >>]
    ELSE LET snapshot == gem_snapshots[isoformat(LatestDay(days))]
         IN  [sent |-> snapshot.totals.sent, opened |-> snapshot.totals.opened,
              replied |-> snapshot.totals.replied, bounced |-> snapshot.totals.bounced,
              by_role |-> snapshot.by_role, by_sender |-> snapshot.by_sender,
              by_sequence |-> snapshot.by_sequence]

\* C9: "this week" aggregates to the totals and breakdowns of the single stored snapshot
\* of greatest date in [today-6, today], "last week" to those of the one of greatest date
\* in [today-13, today-7] (two disjoint, adjoining windows of 7 days); earlier snapshots
\* of a window are not added in; a window without snapshot aggregates to zero counters;
\* has_data is true iff the this-week window holds a snapshot.
C9_WindowsTakeLatestSnapshot ==
    trend_data # None =>
        /\ trend_data.this_week = ExpectedAggregate(ThisWeekDays)
        /\ trend_data.last_week = ExpectedAggregate(LastWeekDays)
        /\ trend_data.has_data = (ThisWeekDays # {})
        /\ trend_data.data_points = Cardinality(ThisWeekDays)
\* two snapshots in this week's window with different counters, the later one reported
C9_Witness ==
    /\ trend_data # None
    /\ ThisWeekDays = {Today - 6, Today}
    /\ gem_snapshots[isoformat(Today - 6)].totals.sent = 11496
    /\ gem_snapshots[isoformat(Today)].totals.sent = 120
    /\ trend_data.this_week.sent = 120
    /\ trend_data.has_data
\* snapshots the day before last week starts and the day after today count for neither
C9_OutsideWitness ==
    /\ trend_data # None
    /\ StoredDays = {Today - 14, Today + 1}
    /\ trend_data.this_week.sent = 0 /\ trend_data.last_week.sent = 0
    /\ ~trend_data.has_data

\* the recommendations of one priority, pass after pass, each pass in emission order
Tier(priority) ==
    LET OfTier(r) == r.priority = priority
    IN  SelectSeq(recs_passes[1], OfTier) \o SelectSeq(recs_passes[2], OfTier)
            \o SelectSeq(recs_passes[3], OfTier)
Generated == recs_passes[1] \o recs_passes[2] \o recs_passes[3]

\* C10: generate_recommendations returns every high recommendation before every medium
\* one and every medium before every low one, and within a priority the recommendations
\* keep their generation order: pipeline-derived before sourcing-derived before combined,
\* and within a pass the order the rules emitted them.
C10_StableByPriority ==
    recs_pc = "done" =>
        /\ recommendations = Tier("high") \o Tier("medium") \o Tier("low")
        /\ \A i \in 1..Len(recommendations), j \in 1..Len(recommendations) :
              ( \/ (recommendations[i].priority = "medium"
                        /\ recommendations[j].priority = "high")
                \/ (recommendations[i].priority = "low"
                        /\ recommendations[j].priority # "low") )
                 => j < i
\* all three passes emit, two of them in more than one tier, and the sort moves a
\* sourcing-derived high recommendation ahead of pipeline-derived medium ones
C10_Witness ==
    /\ recs_pc = "done"
    /\ \A k \in 1..3 : recs_passes[k] # << >>
    /\ \E a, b \in 1..Len(recs_passes[1]) :
          a < b /\ recs_passes[1][a].priority = "medium" /\ recs_passes[1][b].priority = "high"
    /\ \E a, b \in 1..Len(recs_passes[2]) :
          a < b /\ recs_passes[2][a].priority = "low" /\ recs_passes[2][b].priority = "medium"
    /\ recommendations # Generated
    /\ Len(Tier("high")) >= 3 /\ Len(Tier("medium")) >= 3 /\ Len(Tier("low")) >= 1

RatesReady == conv_pc \in {"gap", "bottleneck", "health", "done"}
GapReady == conv_pc \in {"bottleneck", "health", "done"}
BottleneckReady == conv_pc \in {"health", "done"}
HealthReady == conv_pc = "done"

RateValues(rates) == {rates[i][2] : i \in 1..Len(rates)}
\* the least rate of a non-empty map
LeastRate(rates) ==
    CHOOSE r \in RateValues(rates) : \A q \in RateValues(rates) : ~RatLt(q, r)

\* the exact product of the rates, each rate <= 0 counted as 1/20, in lowest terms
RECURSIVE ExactProduct(_, _)
ExactProduct(rates, i) ==
    IF i > Len(rates) THEN <<1, 1>>
    ELSE LET r == IF rates[i][2][1] <= 0 THEN <<1, 20>> ELSE rates[i][2]
             p == ExactProduct(rates, i + 1)
         IN  Rat(r[1] * p[1], r[2] * p[2])
ExactFloorInverse(rates) == LET p == ExactProduct(rates, 1) IN p[2] \div p[1]
ExactCeilInverse(rates) == LET p == ExactProduct(rates, 1) IN (p[2] + p[1] - 1) \div p[1]
InverseIsInteger(rates) == LET p == ExactProduct(rates, 1) IN p[2] % p[1] = 0

FullStackRateMap ==
    [i \in 1..5 |-> LET k == RateKey(pipeline_stages[i], pipeline_stages[i + 1])
                    IN  <<k, FullStackRates[k]>>]
Example20To5 ==
    [s \in {"Recruiter Screen", "HM Screen", "Testing", "Onsite", "Offer", "Hired"} |->
        CASE s = "Recruiter Screen" -> 20 [] s = "HM Screen" -> 5 [] OTHER -> 0]
Example20To5Rates ==
    [i \in 1..5 |-> <<RateKey(pipeline_stages[i], pipeline_stages[i + 1]),
                      IF i = 1 THEN <<1, 4>> ELSE <<0, 1>>>>]

\* C2 as stated: for a non-empty rate map the gap is max(1, ceil(1 / P)), P the product
\* of the rates with every rate <= 0 replaced by 0.05 (rounded up: 30 for 0.33, 0.65,
\* 0.65, 0.30, 0.80).
C2_GapIsCeiling ==
    (GapReady /\ conversion_rates # << >>)
        => gap_to_hire = Max(1, ExactCeilInverse(conversion_rates))

\* C2 amended: for a non-empty rate map the gap is max(1, floor(1 / P)), rounded down,
\* with P and 1 / P computed in double precision: it is the exact floor whenever the
\* exact 1 / P is not an integer, and the exact value k or k - 1 when it is.
C2_GapIsFloor ==
    (GapReady /\ conversion_rates # << >>)
        => LET f == ExactFloorInverse(conversion_rates)
           IN  IF InverseIsInteger(conversion_rates)
               THEN gap_to_hire \in {Max(1, f), Max(1, f - 1)}
               ELSE gap_to_hire = Max(1, f)
C2_Witness ==
    /\ GapReady
    /\ conversion_rates = FullStackRateMap
    /\ gap_to_hire = 29

\* C3: determine_health_status applies its rules in order, first match wins: red if the
\* least rate < 0.20 (an empty map counts as 0), else red if gap > 50, else yellow if
\* gap > 35, else yellow if the stage counts total < 5, else green; the boundary values
\* 0.20, 50, 35 and 5 do not trigger their rule.
C3_HealthRules ==
    HealthReady =>
        LET low   == conversion_rates = << >>
                       \/ RatLt(LeastRate(conversion_rates), <<1, 5>>)
            total == SumValues(stage_counts)
        IN  /\ low => health_status = "red"
            /\ (~low /\ health_gap > 50) => health_status = "red"
            /\ (~low /\ health_gap <= 50 /\ health_gap > 35) => health_status = "yellow"
            /\ (~low /\ health_gap <= 35 /\ total < 5) => health_status = "yellow"
            /\ (~low /\ health_gap <= 35 /\ total >= 5) => health_status = "green"
\* a least rate below 0.20 with a small gap and enough candidates is still red
C3_Witness ==
    /\ HealthReady
    /\ conversion_rates # << >>
    /\ RatLt(LeastRate(conversion_rates), <<1, 5>>)
    /\ health_gap <= 35
    /\ SumValues(stage_counts) >= 5
    /\ health_status = "red"

\* C4: calculate_conversion_rates returns one entry per adjacent pair of the canonical
\* stages, keyed "From->To" in funnel order: the historical rate when the table has that
\* key, else to_count / from_count when from_count > 0 (missing stages count 0), else
\* 0.0; counts of pseudo-stages do not affect any entry.
CanonicalOnly(counts) ==
    [s \in {l \in DOMAIN counts : \E i \in 1..6 : pipeline_stages[i] = l} |-> counts[s]]
C4_ConversionRates ==
    (RatesReady /\ ~rates_given) =>
        /\ Len(conversion_rates) = 5
        /\ \A i \in 1..5 :
              LET from_stage == pipeline_stages[i]
                  to_stage   == pipeline_stages[i + 1]
                  key        == from_stage \o "->" \o to_stage
                  from_count == IF from_stage \in DOMAIN stage_counts
                                THEN stage_counts[from_stage] ELSE 0
                  to_count   == IF to_stage \in DOMAIN stage_counts
                                THEN stage_counts[to_stage] ELSE 0
                  rate       == conversion_rates[i][2]
              IN  /\ conversion_rates[i][1] = key
                  /\ IF historical_rates # None /\ key \in DOMAIN historical_rates
                     THEN rate = historical_rates[key]
                     ELSE IF from_count > 0
                     THEN rate[1] * from_count = to_count * rate[2]
                     ELSE rate = <<0, 1>>
        /\ conversion_rates =
               calculate_conversion_rates(CanonicalOnly(stage_counts), historical_rates)
\* one entry from the table, one observed, one without candidates, a pseudo-stage counted
C4_Witness ==
    /\ RatesReady /\ ~rates_given
    /\ historical_rates # None
    /\ DOMAIN historical_rates = {"HM Screen->Testing"}
    /\ "Phone Chat" \in DOMAIN stage_counts
    /\ "Recruiter Screen" \in DOMAIN stage_counts
    /\ "HM Screen" \in DOMAIN stage_counts
    /\ conversion_rates[1][2] = <<stage_counts["HM Screen"], stage_counts["Recruiter Screen"]>>
    /\ conversion_rates[2][2] = <<1, 10>>
    /\ conversion_rates[4][2] = <<0, 1>>

\* C5 as stated: the gap is >= 1 for every rate map, 999 for an empty map, and stage
\* counts {Recruiter Screen: 20, HM Screen: 5, others 0} without historical rates give
\* rates 0.25, 0, 0, 0, 0 and the gap 640000.
C5_GapExample640000 ==
    GapReady =>
        /\ gap_to_hire >= 1
        /\ conversion_rates = << >> => gap_to_hire = UnknownGap
        /\ (~rates_given /\ stage_counts = Example20To5
              /\ historical_rates \in {None, EmptyDict})
             => /\ conversion_rates = Example20To5Rates
                /\ gap_to_hire = 640000

\* C5 amended: the gap is >= 1 for every rate map, 999 for an empty map, and a non-empty
\* map with zero rates gives a finite projection, not the sentinel: at most the exact
\* 1 / P and less than 2 below it; the example gives rates 0.25, 0, 0, 0, 0 and the gap
\* 639999 (the double 0.05 lies above 1/20, and the quotient is truncated).
C5_GapAtLeastOne ==
    GapReady =>
        /\ gap_to_hire >= 1
        /\ conversion_rates = << >> => gap_to_hire = UnknownGap
        /\ conversion_rates # << >> =>
              LET p == ExactProduct(conversion_rates, 1)
              IN  \/ gap_to_hire = 1 /\ p[2] < 2 * p[1]
                  \/ gap_to_hire * p[1] <= p[2] /\ p[2] < (gap_to_hire + 2) * p[1]
        /\ (~rates_given /\ stage_counts = Example20To5
              /\ historical_rates \in {None, EmptyDict})
             => /\ conversion_rates = Example20To5Rates
                /\ gap_to_hire = 639999
C5_Witness ==
    /\ GapReady /\ ~rates_given
    /\ stage_counts = Example20To5
    /\ historical_rates = None
    /\ gap_to_hire = 639999

\* C6: find_bottleneck returns None for an empty map and when the least rate is >= 0.25;
\* otherwise "<key> (<floor(rate * 100)>%)" for the first key, in map order, that holds
\* the least rate (a rate below 0, which calculate_conversion_rates never yields, has its
\* percentage truncated toward zero).
ReportedPercent(r) ==
    IF r[1] >= 0 THEN (100 * r[1]) \div r[2] ELSE -((100 * (-r[1])) \div r[2])
C6_Bottleneck ==
    BottleneckReady =>
        IF conversion_rates = << >> \/ ~RatLt(LeastRate(conversion_rates), <<1, 4>>)
        THEN bottleneck = None
        ELSE \E i \in 1..Len(conversion_rates) :
                /\ conversion_rates[i][2] = LeastRate(conversion_rates)
                /\ \A j \in 1..(i - 1) : conversion_rates[j][2] # conversion_rates[i][2]
                /\ bottleneck =
                     [text |-> conversion_rates[i][1] \o " (" \o
                               ToString(ReportedPercent(conversion_rates[i][2])) \o "%)"]
\* rates {A->B: 0.30, B->C: 0.18} report "B->C (18%)"
C6_Witness ==
    /\ BottleneckReady
    /\ conversion_rates = << <<"A->B", <<3, 10>>>>, <<"B->C", <<9, 50>>>> >>
    /\ bottleneck = [text |-> "B->C (18%)"]
\* the least rate is shared and the first key holding it is the one reported
C6_TieWitness ==
    /\ BottleneckReady
    /\ conversion_rates = << <<"A->B", <<1, 10>>>>, <<"B->C", <<1, 10>>>> >>
    /\ bottleneck = [text |-> "A->B (10%)"]

\* ---------- C11: follow-ups of the pipeline pass ----------
\* the follow-up the pipeline pass emits for one stuck candidate of one role
FollowedUp(role, c) ==
    \E i \in 1..Len(recs_passes[1]) :
        /\ recs_passes[1][i].category = "follow_up"
        /\ recs_passes[1][i].priority = "high"
        /\ recs_passes[1][i].action =
              "Follow up on " \o c.name \o " for " \o role.job_title
                  \o " - move forward or archive"
StuckOf(role) == { role.stuck_candidates[i] : i \in 1..Len(role.stuck_candidates) }

\* C11: for each role the pipeline pass emits high-priority follow-ups for
\* min(3, number of stuck candidates) candidates, and they are the most-stuck ones: no
\* stuck candidate left without a follow-up has strictly more days_in_stage than a stuck
\* candidate of the same role that gets one, whatever the order of the list.
C11_FollowUpsForMostStuck ==
    (recs_pc = "done" /\ pipeline_snapshot # None) =>
        \A r \in 1..Len(pipeline_snapshot.roles) :
            LET role == pipeline_snapshot.roles[r]
                followed == { c \in StuckOf(role) : FollowedUp(role, c) }
            IN  /\ Cardinality(followed) =
                      (IF Len(role.stuck_candidates) < 3 THEN Len(role.stuck_candidates) ELSE 3)
                /\ \A c \in followed, d \in StuckOf(role) \ followed :
                      d.days_in_stage <= c.days_in_stage
\* a role lists four stuck candidates and the one left out has waited longer than one
\* of the three that get a follow-up
C11_Witness ==
    /\ recs_pc = "done" /\ pipeline_snapshot # None
    /\ \E r \in 1..Len(pipeline_snapshot.roles) :
          LET role == pipeline_snapshot.roles[r]
          IN  /\ Len(role.stuck_candidates) > 3
              /\ \E c, d \in StuckOf(role) :
                    /\ FollowedUp(role, c) /\ ~FollowedUp(role, d)
                    /\ d.days_in_stage > c.days_in_stage

\* ---------- C12: the combined pass ----------
\* the sourcing category a role's outreach is recorded under
OwnCategory(job_title) ==
    CASE job_title \in {"Senior Full Stack Engineer", "Full Stack Engineer"} -> "Full Stack"
      [] job_title = "Senior AI Engineer" -> "AI Engineer"
      [] OTHER -> job_title
\* the sent volume the latest stored snapshot records for a category, 0 when it has none
RecordedSent(category) ==
    Get(DictGet(Get(get_latest_gem_snapshot(gem_snapshots), "by_role", << >>),
                category, EmptyDict), "sent", 0)
\* the combined recommendation that names a role and cites its gap_to_hire
CombinedFor(role) ==
    { i \in 1..Len(recs_passes[3]) :
        /\ recs_passes[3][i].for_whom = "blessing"
        /\ recs_passes[3][i].priority = "high"
        /\ recs_passes[3][i].category = "sourcing"
        /\ recs_passes[3][i].action =
              "Prioritize " \o role.job_title \o " sourcing - need "
                  \o ToString(role.gap_to_hire) \o " screens to hire" }
CombinedRan ==
    /\ recs_pc = "done" /\ pipeline_snapshot # None
    /\ get_latest_gem_snapshot(gem_snapshots) # None

\* C12: in the combined pass every red or yellow role gets exactly one high-priority
\* sourcing recommendation for the sourcer, citing the role's gap_to_hire, iff the sent
\* volume recorded for the role's own sourcing category is below 50 (a missing category
\* counts as 0), and a green role gets none; a role that is neither Full Stack nor AI
\* Engineer is not judged on another role's volume.  Roles of one title and gap share
\* the text of the recommendation and are counted together.
C12_CombinedJudgesOwnCategory ==
    CombinedRan =>
        LET roles == pipeline_snapshot.roles
            Due(r) == /\ roles[r].health_status \in {"red", "yellow"}
                      /\ RecordedSent(OwnCategory(roles[r].job_title)) < 50
        IN  /\ \A r \in 1..Len(roles) :
                  Cardinality(CombinedFor(roles[r])) =
                      Cardinality({ q \in 1..Len(roles) :
                                      /\ roles[q].job_title = roles[r].job_title
                                      /\ roles[q].gap_to_hire = roles[r].gap_to_hire
                                      /\ Due(q) })
            /\ \A i \in 1..Len(recs_passes[3]) :
                  \E r \in 1..Len(roles) : i \in CombinedFor(roles[r])
\* a yellow GTM Engineer role with no outreach recorded under its own category gets no
\* combined recommendation because the AI Engineer category has 50 sends
C12_Witness ==
    /\ CombinedRan
    /\ RecordedSent("AI Engineer") >= 50
    /\ \E r \in 1..Len(pipeline_snapshot.roles) :
          /\ pipeline_snapshot.roles[r].job_title = "GTM Engineer"
          /\ pipeline_snapshot.roles[r].health_status = "yellow"
          /\ RecordedSent("GTM Engineer") = 0
          /\ CombinedFor(pipeline_snapshot.roles[r]) = {}

\* ---------- C13: the "clone this" tip of the sourcing pass ----------
\* this week's by_sequence entries, as the sourcing pass reads them
WeekSequences == Get(get_gem_trend_data(gem_snapshots, Today).this_week, "by_sequence", << >>)
CloneTips ==
    { i \in 1..Len(recs_passes[2]) :
        /\ recs_passes[2][i].priority = "low"
        /\ recs_passes[2][i].action =
              "Clone the messaging approach from this top-performing sequence" }
\* the tip names a sequence with reply rate > 15% and more than 10 sends
NamesStrongSequence(rec) ==
    \E k \in 1..Len(WeekSequences) :
        /\ rec.insight = "'" \o WeekSequences[k][1] \o "' has "
                             \o FormatUnits(RatePercent(WeekSequences[k][2].reply_rate))
                             \o "% reply rate"
        /\ RatLt(Rat(15, 100), WeekSequences[k][2].reply_rate)
        /\ WeekSequences[k][2].sent > 10

\* C13: the sourcing pass emits at most one low-priority "clone this" tip per run, and
\* the sequence it names has a reply rate above 15% and more than 10 sends; no tip is
\* emitted when every sequence has 10 or fewer sends, even if one of them has a reply
\* rate above 15%.
C13_CloneTipNeedsVolume ==
    recs_pc = "done" =>
        /\ Cardinality(CloneTips) <= 1
        /\ \A i \in CloneTips : NamesStrongSequence(recs_passes[2][i])
        /\ (\A k \in 1..Len(WeekSequences) : WeekSequences[k][2].sent <= 10)
               => CloneTips = {}
\* every sequence of the week has 10 or fewer sends, the first has a reply rate of 25%,
\* and the tip is emitted for it
C13_Witness ==
    /\ recs_pc = "done"
    /\ WeekSequences # << >>
    /\ \A k \in 1..Len(WeekSequences) : WeekSequences[k][2].sent <= 10
    /\ WeekSequences[1][2].reply_rate = Rat(1, 4)
    /\ \E i \in CloneTips : recs_passes[2][i].insight = "'AI Pilot' has 25% reply rate"

\* ---------- C14: the gate of the sourcing pass ----------
\* the high-priority volume recommendation of the sourcing pass
VolumeAlerts ==
    { i \in 1..Len(recs_passes[2]) :
        /\ recs_passes[2][i].priority = "high"
        /\ recs_passes[2][i].for_whom = "blessing"
        /\ recs_passes[2][i].action = "Increase daily outreach volume to hit 120/week target" }
\* this week's total sent: the totals of the latest snapshot dated in [today-6, today]
WeekSent == gem_snapshots[isoformat(LatestDay(ThisWeekDays))].totals.sent

\* C14: when no stored snapshot is dated within [today-6, today] (has_data false) the
\* sourcing pass emits no recommendation at all, whatever the latest stored snapshot
\* holds; when there is one, a high-priority volume recommendation is emitted iff this
\* week's total sent is below 100.
C14_SourcingGate ==
    recs_pc = "done" =>
        IF ThisWeekDays = {}
        THEN recs_passes[2] = << >>
        ELSE Cardinality(VolumeAlerts) = (IF WeekSent < 100 THEN 1 ELSE 0)
\* a snapshot is stored, but a fortnight old: it would draw recommendations, and the
\* pass emits nothing
C14_Witness ==
    /\ recs_pc = "done"
    /\ StoredDays = {Today - 14}
    /\ gem_snapshots[isoformat(Today - 14)].by_sender[1] = <<"Blessing", WithReplyRate([sent |-> 70, opened |-> 30, replied |-> 8, bounced |-> 1])>>
    /\ recs_passes[2] = << >>
\* this week's volume is below 100 and the alert is emitted
C14_LowVolumeWitness ==
    /\ recs_pc = "done"
    /\ ThisWeekDays # {} /\ WeekSent = 30
    /\ Cardinality(VolumeAlerts) = 1
\* this week's volume is 100 and no alert is emitted
C14_FullVolumeWitness ==
    /\ recs_pc = "done"
    /\ ThisWeekDays # {} /\ WeekSent = 100
    /\ VolumeAlerts = {}

\* ---------- C15: get_daily_activities ----------
\* a person's recommendations in the order of the priority-sorted list
SortedFor(person) ==
    LET Theirs(r) == r.for_whom = person IN SelectSeq(recommendations, Theirs)
\* the person passes the for_whom filter of the call
Admitted(person) ==
    \/ activities_for \in {None, [text |-> ""]}
    \/ activities_for = [text |-> person]
    \/ (activities_for = [text |-> "Drew"] /\ person = "drew")
\* rank of a priority: high 0, medium 1, low 2
PriorityRank(priority) ==
    CASE priority = "high" -> 0 [] priority = "medium" -> 1 [] priority = "low" -> 2

\* C15: each of the "drew" and "blessing" lists of get_daily_activities has at most 5
\* entries, numbered 1..k consecutively; they are that person's top entries of the
\* priority-sorted recommendation list, in the sorted order (the first min(5, n) of the
\* person's n recommendations, or none when the call asked for the other person), and no
\* recommendation for that person left out has a strictly higher priority than one
\* included.
C15_TopFivePerPerson ==
    recs_pc = "served" =>
        \A person \in {"drew", "blessing"} :
            LET list == daily_activities[person]
                theirs == SortedFor(person)
            IN  /\ Len(list) <= 5
                /\ Len(list) = (IF ~Admitted(person) THEN 0
                                ELSE IF Len(theirs) < 5 THEN Len(theirs) ELSE 5)
                /\ \A i \in 1..Len(list) :
                      /\ list[i].number = i
                      /\ list[i].action = theirs[i].action
                      /\ list[i].insight = theirs[i].insight
                      /\ list[i].priority = theirs[i].priority
                /\ \A i \in 1..Len(list), j \in (Len(list) + 1)..Len(theirs) :
                      PriorityRank(theirs[j].priority) >= PriorityRank(list[i].priority)
\* Drew has more than five recommendations, of which high-priority ones fill the list
\* and a medium-priority one is left out
C15_Witness ==
    /\ recs_pc = "served"
    /\ activities_for = None
    /\ Len(SortedFor("drew")) > 5
    /\ Len(daily_activities.drew) = 5
    /\ daily_activities.drew[5].number = 5
    /\ daily_activities.drew[5].priority = "high"
    /\ SortedFor("drew")[6].priority = "medium"
    /\ daily_activities.blessing # << >>

\* ---------- C16: get_stuck_candidates ----------
StuckCallDone == funnel_pc = "done" /\ stage_label = None
\* the normalized stage has a configured threshold and the candidate has outstayed it
OverThreshold(c) ==
    \E s \in DOMAIN stuck_thresholds :
        /\ s = normalize_stage(c.current_stage)
        /\ c.days_in_stage > stuck_thresholds[s]

\* C16: get_stuck_candidates returns exactly the input candidates whose normalized stage
\* has a configured day threshold and whose days_in_stage is strictly greater than it,
\* in input order, with is_stuck = true on each: days_in_stage equal to the threshold is
\* not stuck, a candidate with no stage-entry time has days_in_stage 0 and is never
\* stuck, and a candidate in Hired or in an unknown pseudo-stage is never stuck.
C16_StuckExactlyOverThreshold ==
    StuckCallDone =>
        /\ \A i \in 1..Len(candidates) :
              (\E k \in 1..Len(stuck_list) : stuck_list[k].id = candidates[i].id)
                  <=> OverThreshold(candidates[i])
        /\ \A k \in 1..Len(stuck_list) :
              /\ stuck_list[k].is_stuck = TRUE
              /\ stuck_list[k] = candidates[stuck_list[k].id]
        /\ \A k \in 1..(Len(stuck_list) - 1) : stuck_list[k].id < stuck_list[k + 1].id
        /\ \A k \in 1..Len(stuck_list) :
              /\ stuck_list[k].stage_entered_at # None
              /\ stuck_list[k].days_in_stage > 0
              /\ normalize_stage(stuck_list[k].current_stage)
                     \in {"Recruiter Screen", "HM Screen", "Testing", "Onsite", "Offer"}
        /\ \A i \in 1..Len(candidates) :
              /\ candidates[i].stage_entered_at = None => candidates[i].days_in_stage = 0
              /\ (\E s \in DOMAIN stuck_thresholds :
                     /\ s = normalize_stage(candidates[i].current_stage)
                     /\ candidates[i].days_in_stage = stuck_thresholds[s])
                    => ~candidates[i].is_stuck
\* an alias-stage candidate over the threshold, one exactly at the threshold and one over
\* it: the first and the third are returned, in that order, and the second is not
C16_Witness ==
    /\ StuckCallDone
    /\ Len(candidates) = 3
    /\ candidates[1].current_stage = "Hiring Manager Screen" /\ candidates[1].days_in_stage = 8
    /\ candidates[2].current_stage = "Recruiter Screen" /\ candidates[2].days_in_stage = 5
    /\ candidates[3].current_stage = "Recruiter Screen" /\ candidates[3].days_in_stage = 6
    /\ stuck_list = << candidates[1], candidates[3] >>
    /\ candidates[1].is_stuck /\ ~candidates[2].is_stuck
\* candidates without stage-entry time, in Hired and in an unknown stage: none is stuck
C16_NeverStuckWitness ==
    /\ StuckCallDone
    /\ Len(candidates) = 3
    /\ candidates[1].stage_entered_at = None
    /\ candidates[2].current_stage = "Hired" /\ candidates[2].days_in_stage = 100
    /\ candidates[3].current_stage = "Phone Chat" /\ candidates[3].days_in_stage = 100
    /\ stuck_list = << >>

\* ---------- C17: count_by_stage ----------
\* C17: count_by_stage counts each candidate once under its normalized stage, so the
\* counts sum to the number of candidates; a raw "Hiring Manager Screen" is counted under
\* "HM Screen" and is no key itself; every key has a count of at least 1; a candidate
\* with an unmapped label is counted under that label and is not dropped.
C17_CountsEveryCandidateOnce ==
    stage_tally # None =>
        /\ SumValues(stage_tally) = Len(candidates)
        /\ \A s \in DOMAIN stage_tally :
              /\ stage_tally[s] >= 1
              /\ stage_tally[s] =
                    Cardinality({i \in 1..Len(candidates) :
                        \/ candidates[i].current_stage = s
                        \/ (candidates[i].current_stage \in DOMAIN STAGE_MAPPING
                               /\ STAGE_MAPPING[candidates[i].current_stage] = s)})
        /\ "Hiring Manager Screen" \notin DOMAIN stage_tally
        /\ \A i \in 1..Len(candidates) :
              /\ candidates[i].current_stage = "Hiring Manager Screen"
                    => "HM Screen" \in DOMAIN stage_tally
              /\ candidates[i].current_stage \notin DOMAIN STAGE_MAPPING
                    => candidates[i].current_stage \in DOMAIN stage_tally
\* an alias, its canonical stage and an unmapped label: two under "HM Screen", one under
\* the unmapped label
C17_Witness ==
    /\ stage_tally # None
    /\ Len(candidates) = 3
    /\ candidates[1].current_stage = "Hiring Manager Screen"
    /\ candidates[2].current_stage = "Phone Chat"
    /\ candidates[3].current_stage = "HM Screen"
    /\ DOMAIN stage_tally = {"HM Screen", "Phone Chat"}
    /\ stage_tally["HM Screen"] = 2 /\ stage_tally["Phone Chat"] = 1

\* ---------- C18: normalize_stage ----------
NormalizeDone == funnel_pc = "done" /\ stage_label # None
CanonicalStages == { pipeline_stages[i] : i \in 1..Len(pipeline_stages) }

\* C18: normalize_stage is idempotent over all labels, normalize(normalize(x)) =
\* normalize(x) for every alias, canonical and unknown label x; each of the six canonical
\* stages maps to itself; every alias in the table maps to one of the six canonical
\* stages; a label absent from the table, including one that differs from an alias only
\* in letter case, is returned unchanged.
C18_NormalizeIdempotent ==
    NormalizeDone =>
        /\ normalize_stage(normalized_label.text) = normalized_label.text
        /\ stage_label.text \in CanonicalStages => normalized_label = stage_label
        /\ stage_label.text \in DOMAIN STAGE_MAPPING
              => normalized_label.text \in CanonicalStages
        /\ stage_label.text \notin DOMAIN STAGE_MAPPING => normalized_label = stage_label
        /\ Cardinality(CanonicalStages) = 6
        /\ CanonicalStages \subseteq DOMAIN STAGE_MAPPING
\* an alias is normalized to a canonical stage other than itself
C18_Witness ==
    /\ NormalizeDone
    /\ stage_label = [text |-> "Take Home"]
    /\ normalized_label = [text |-> "Testing"]
\* a label that differs from an alias only in letter case comes back unchanged
C18_CaseWitness ==
    /\ NormalizeDone
    /\ stage_label = [text |-> "hm screen"]
    /\ normalized_label = [text |-> "hm screen"]

\* ---------- C19: the allocation split ----------
\* the score a title is allocated by and the total, as doubles
TitleScore(t) == RoleScore(LastWith(role_pipelines, t))
TotalScore == SumScores(CollectScores(role_pipelines, 1, << >>), 1, FZero)
\* floor(score / total_score * capacity), the quotient and the product being doubles
FloorShare(t) ==
    LET Floor(x) == LET Below(n) == IF FCmp(x, FFromInt(n)) < 0 THEN n - 1 ELSE n
                    IN  Below(FTrunc(x))
    IN  Floor(FMul(FDiv(TitleScore(t), TotalScore), FFromInt(weekly_outreach_capacity)))
\* the highest-priority role: the first role of the least priority number
HighestPriorityTitle ==
    role_pipelines[CHOOSE i \in 1..Len(role_pipelines) :
                      /\ \A j \in 1..Len(role_pipelines) :
                            role_pipelines[i].priority <= role_pipelines[j].priority
                      /\ \A j \in 1..(i - 1) :
                            role_pipelines[i].priority < role_pipelines[j].priority].job_title
SplitDone ==
    /\ alloc_pc = "done" /\ role_pipelines # << >>
    /\ FCmp(TotalScore, FZero) > 0

\* C19: when the total score is positive, every role other than the highest-priority role
\* (lowest priority number, the first such role in list order on ties) receives exactly
\* floor(score / total_score * capacity), with score = (4 - priority) * min(gap_to_hire /
\* 20, 5) * health_weight, and the highest-priority role receives its own floor share
\* plus the entire remainder, capacity minus the sum of the floor shares.
C19_FloorSharesAndRemainder ==
    SplitDone =>
        /\ DOMAIN allocations = Titles(role_pipelines)
        /\ \A t \in Titles(role_pipelines) :
              allocations[t] =
                  IF t = HighestPriorityTitle
                  THEN FloorShare(t) + weekly_outreach_capacity
                          - SumOver([u \in Titles(role_pipelines) |-> FloorShare(u)],
                                    Titles(role_pipelines))
                  ELSE FloorShare(t)
\* a role of negative score beside one of larger positive score: its share is rounded
\* toward zero, above the floor, and the remainder, negative, is not handed out
C19_Witness ==
    /\ SplitDone
    /\ \E t \in Titles(role_pipelines) :
          /\ t # HighestPriorityTitle
          /\ allocations[t] < 0
          /\ allocations[t] = FloorShare(t) + 1
    /\ Allocated > weekly_outreach_capacity

\* ---------- C20: the 0.05 floor stays inside the gap computation ----------
\* transition i has no historical rate and no observed conversion
ZeroObserved(i) ==
    /\ RateKey(pipeline_stages[i], pipeline_stages[i + 1])
          \notin DOMAIN (IF historical_rates = None THEN EmptyDict ELSE historical_rates)
    /\ \/ Get(stage_counts, pipeline_stages[i], 0) = 0
       \/ Get(stage_counts, pipeline_stages[i + 1], 0) = 0
Transitions == 1..(Len(pipeline_stages) - 1)
FirstZeroObserved ==
    CHOOSE i \in Transitions : ZeroObserved(i) /\ \A j \in 1..(i - 1) : ~ZeroObserved(j)

\* C20: calculate_gap_to_hire leaves the rate map it is given unchanged: in the role
\* pipeline analyze_pipeline builds, a transition with zero observed conversion is still
\* reported with rate 0.0 after the gap was computed, bottleneck detection and health
\* classification see 0.0 (the bottleneck reads "<transition> (0%)", the health is red),
\* and gap_to_hire is the projection with 0.05 in the place of every zero rate.
C20_FloorIsLocal ==
    (~rates_given /\ \E i \in Transitions : ZeroObserved(i)) =>
        /\ RatesReady =>
              \A i \in Transitions :
                  ZeroObserved(i) =>
                      conversion_rates[i] =
                          <<RateKey(pipeline_stages[i], pipeline_stages[i + 1]), Rat(0, 1)>>
        /\ GapReady =>
              LET p == ExactProduct(conversion_rates, 1)
              IN  /\ p[1] > 0
                  /\ gap_to_hire * p[1] <= p[2]
                  /\ p[2] < (gap_to_hire + 2) * p[1]
        /\ BottleneckReady =>
              bottleneck = [text |-> conversion_rates[FirstZeroObserved][1] \o " (0%)"]
        /\ HealthReady => health_status = "red"
\* 20 candidates at Recruiter Screen, 5 at HM Screen, nobody further: the four later
\* transitions are reported with 0.0, the bottleneck is the first of them at 0%, the
\* health is red, and the gap is the one 0.05 gives
C20_Witness ==
    /\ HealthReady /\ ~rates_given
    /\ stage_counts = Example20To5 /\ historical_rates = None
    /\ \A i \in 2..5 : ZeroObserved(i) /\ conversion_rates[i][2] = Rat(0, 1)
    /\ bottleneck = [text |-> "HM Screen->Testing (0%)"]
    /\ health_status = "red"
    /\ health_gap = gap_to_hire /\ gap_to_hire = 639999

\* ---------- C30: bounds of the allocation ----------
\* every role has one of the three configured priorities and something left to hire
ThreeRanks ==
    \A i \in 1..Len(role_pipelines) :
        role_pipelines[i].priority \in 1..3 /\ role_pipelines[i].gap_to_hire >= 1

\* C30: when every role has priority in {1,2,3} and gap_to_hire >= 1, the keys of the
\* allocation map are exactly the distinct job titles of the input roles and every value
\* is an integer in 0..total_capacity: no role receives a negative allocation and no
\* single role receives more than the whole capacity, also when two input roles share a
\* job title.
C30_AllocationBounds ==
    (alloc_pc = "done" /\ ThreeRanks) =>
        /\ DOMAIN allocations = Titles(role_pipelines)
        /\ \A t \in DOMAIN allocations : allocations[t] \in 0..weekly_outreach_capacity
\* three roles, two of them with the same title, every rank from 1 to 3 among them; the
\* shared title has one entry and some role is left with less than the capacity
C30_Witness ==
    /\ alloc_pc = "done" /\ ThreeRanks
    /\ Len(role_pipelines) = 3
    /\ Cardinality(Titles(role_pipelines)) = 2
    /\ \E i, j \in 1..3 : role_pipelines[i].priority = 1 /\ role_pipelines[j].priority = 3
    /\ \E t \in DOMAIN allocations : allocations[t] > 0 /\ allocations[t] < weekly_outreach_capacity

\* ---------- C27: the sequence rows and the by_sequence breakdown of a date ----------
\* the sequence names of the gem_sequence_stats rows stored for a date
StatsNames(d) == {k[2] : k \in {x \in DOMAIN gem_sequence_stats : x[1] = d}}
\* the counters of a row or of a by_sequence entry
Counters(e) == <<e.sent, e.opened, e.replied, e.bounced>>

\* C27: after any sequence of successful snapshot submissions, re-submissions of a date
\* with a different set of sequences included, for every date the gem_sequence_stats rows
\* stored for that date have exactly the sequence names of the by_sequence breakdown of
\* the stored snapshot for that date, with the same sent/opened/replied/bounced counters.
C27_RowsMatchBreakdown ==
    \A d \in DOMAIN gem_snapshots :
        LET by_sequence == gem_snapshots[d].by_sequence
        IN  /\ StatsNames(d) = {by_sequence[i][1] : i \in 1..Len(by_sequence)}
            /\ \A i \in 1..Len(by_sequence) :
                  Counters(gem_sequence_stats[<<d, by_sequence[i][1]>>])
                      = Counters(by_sequence[i][2])
\* a date submitted twice, the second time without a sequence of the first: the row of
\* that sequence is still stored, the snapshot no longer lists it
C27_Witness ==
    /\ saves = 2
    /\ \E d \in DOMAIN gem_snapshots :
          /\ DOMAIN gem_snapshots = {d}
          /\ \E n \in StatsNames(d) :
                \A i \in 1..Len(gem_snapshots[d].by_sequence) :
                    gem_snapshots[d].by_sequence[i][1] # n

\* ---------- C28: the totals of a snapshot against its three breakdowns ----------
\* the counters of a breakdown added up
RECURSIVE BreakdownSum(_, _)
BreakdownSum(breakdown, i) ==
    IF i > Len(breakdown) THEN <<0, 0, 0, 0>>
    ELSE LET c    == Counters(breakdown[i][2])
             rest == BreakdownSum(breakdown, i + 1)
         IN  [j \in 1..4 |-> c[j] + rest[j]]

\* C28: in every snapshot stored by a submission, for each counter (sent, opened,
\* replied, bounced) the grand total equals the sum over the by_role entries, the sum
\* over the by_sender entries and the sum over the by_sequence entries, for every
\* submitted list of sequences, lists in which the same sequence_name occurs more than
\* once included.
C28_TotalsMatchBreakdowns ==
    \A d \in DOMAIN gem_snapshots :
        LET data == gem_snapshots[d]
        IN  /\ Counters(data.totals) = BreakdownSum(data.by_role, 1)
            /\ Counters(data.totals) = BreakdownSum(data.by_sender, 1)
            /\ Counters(data.totals) = BreakdownSum(data.by_sequence, 1)
\* a stored snapshot whose by_sequence has one entry while its totals count two
\* sequences: the totals agree with by_role and by_sender and exceed by_sequence
C28_Witness ==
    \E d \in DOMAIN gem_snapshots :
        LET data == gem_snapshots[d]
        IN  /\ Len(data.by_sequence) = 1 /\ Len(data.by_sender) = 2
            /\ Counters(data.totals) = BreakdownSum(data.by_role, 1)
            /\ Counters(data.totals) = BreakdownSum(data.by_sender, 1)
            /\ Counters(data.totals) = <<30, 12, 3, 1>>
            /\ BreakdownSum(data.by_sequence, 1) = <<10, 4, 1, 1>>

\* ---------- C23: a post with a malformed snapshot_date ----------
\* the texts of the days of the model's calendar, February and March 2024
CalendarTexts == {isoformat(d) : d \in 1..(DaysInFebruary + 31)}
\* the request waiting to be posted gives a snapshot_date that is no date
MalformedDate ==
    /\ post_request # None
    /\ post_request.snapshot_date # None
    /\ post_request.snapshot_date.text \notin CalendarTexts
StoreUnchanged == UNCHANGED <<gem_snapshots, gem_sequence_stats>>

\* C23: a snapshot submission with a malformed snapshot_date is rejected immediately with
\* a client error carrying a descriptive message, and the store is left unchanged: no
\* gem_sequence_stats row and no gem_snapshots record is written or modified for any
\* date, whatever sequences the request contains.
C23_MalformedDateRejected ==
    [][(MalformedDate /\ saves' = saves + 1) =>
          /\ post_response'.status_code = 400
          /\ post_response'.detail = "Invalid date format. Use YYYY-MM-DD"
          /\ StoreUnchanged]_vars
\* a request with the empty text as its date and two sequences, posted to a store that
\* holds one sequence for Today: it is answered with success and stored under Today
C23_Witness ==
    /\ MalformedDate /\ post_request.snapshot_date.text = << >>
    /\ post_request.sequences = WarmList
    /\ saves = 2
    /\ post_response = [status_code |-> 200, detail |-> "success"]
    /\ Len(gem_snapshots[isoformat(Today)].by_sequence) = 2
    /\ Cardinality(StatsNames(isoformat(Today))) = 3
\* a post whose date text is not empty and names no day is answered with 400 and writes
\* nothing
C23_NonEmptyRejected ==
    [][(MalformedDate /\ post_request.snapshot_date.text # << >> /\ saves' = saves + 1) =>
          /\ post_response'.status_code = 400
          /\ StoreUnchanged]_vars

\* ---------- C21: the snapshot store upserts by date ----------
\* the rows stored for a day
RowsOf(rows, d) == {r \in rows : r.snapshot_date = isoformat(d)}
\* a save_gem_snapshot call on connection c commits in this step
Committing(c) == db_calls[c].pc = "written" /\ db_calls'[c].pc = "returned"
\* the days of the calls and one day never saved
UpsertDays == {Today - 2, Today - 1, Today}

\* C21: after any sequence of save_gem_snapshot calls there is at most one stored snapshot
\* per calendar date, get_gem_snapshot(d) returns the data of the most recent save for d
\* (or nothing if d was never saved), a save for date d leaves the snapshots of all other
\* dates unchanged, and re-saving an existing date returns the same record id as the
\* first save of that date: the stored rows change only when a call commits, the call
\* then returns the id of the row of its date, and no row ever changes its id or date.
C21_UpsertByDate ==
    [][/\ \A d \in UpsertDays : Cardinality(RowsOf(snapshot_rows', d)) <= 1
       /\ (\A c \in Connections : ~Committing(c)) => snapshot_rows' = snapshot_rows
       /\ \A r \in snapshot_rows :
             \E q \in snapshot_rows' : q.id = r.id /\ q.snapshot_date = r.snapshot_date
       /\ \A c \in Connections :
             Committing(c) =>
                 LET d == db_calls[c].snapshot_date
                 IN  /\ get_gem_snapshot(snapshot_rows', d) = db_calls[c].data
                     /\ \A r \in RowsOf(snapshot_rows', d) :
                           db_calls[c].written.returned = [id |-> r.id]
                     /\ \A e \in UpsertDays \ {d} :
                           /\ RowsOf(snapshot_rows', e) = RowsOf(snapshot_rows, e)
                           /\ get_gem_snapshot(snapshot_rows', e)
                                 = get_gem_snapshot(snapshot_rows, e)]_vars
\* Today saved twice, one call after the other, with different data, and the day before
\* never: one row of id 1 holding the second data, the second call found that row and
\* returned its id, and get_gem_snapshot gives nothing for the day before
C21_Witness ==
    /\ \A c \in {1, 2} : db_calls[c].pc = "returned" /\ db_calls[c].snapshot_date = Today
    /\ db_calls[1].existing = None /\ db_calls[2].existing = [id |-> 1]
    /\ db_calls[1].data # db_calls[2].data
    /\ db_calls[2].written.returned = [id |-> 1]
    /\ snapshot_rows = {[id |-> 1, snapshot_date |-> isoformat(Today),
                         data |-> db_calls[2].data]}
    /\ get_gem_snapshot(snapshot_rows, Today) = db_calls[2].data
    /\ get_gem_snapshot(snapshot_rows, Today - 1) = None

\* ---------- C26: two saves of one date on two connections ----------
\* two calls that were both opened for one date
SameDate(c1, c2) ==
    /\ c1 # c2
    /\ db_calls[c1].pc # "unopened" /\ db_calls[c2].pc # "unopened"
    /\ db_calls[c1].snapshot_date = db_calls[c2].snapshot_date
Finished(c) == db_calls[c].pc \in {"returned", "failed"}

\* C26: for every interleaving of two save_gem_snapshot calls for the same date, each
\* running its select-then-insert/update on its own connection, both calls complete
\* without error and afterwards exactly one record exists for that date, holding the data
\* of one of the two calls.
C26_AtomicUpsertPerDate ==
    \A c1, c2 \in Connections :
        SameDate(c1, c2) =>
            /\ db_calls[c1].pc # "failed" /\ db_calls[c2].pc # "failed"
            /\ (Finished(c1) /\ Finished(c2)) =>
                  \E r \in snapshot_rows :
                      /\ RowsOf(snapshot_rows, db_calls[c1].snapshot_date) = {r}
                      /\ r.data \in {db_calls[c1].data, db_calls[c2].data}
\* both calls ran their SELECT before either wrote, so neither found a row; the first
\* INSERT was committed and the second was refused by UNIQUE(snapshot_date)
C26_Witness ==
    /\ SameDate(1, 2)
    /\ db_calls[1].existing = None /\ db_calls[2].existing = None
    /\ db_calls[1].pc = "returned" /\ db_calls[2].pc = "failed"
    /\ snapshot_rows = {[id |-> 1, snapshot_date |-> isoformat(db_calls[1].snapshot_date),
                         data |-> db_calls[1].data]}

\* ---------- C29: the is_stuck flag against the stuck list ----------
\* candidate i of the job is in the list get_stuck_candidates returned
Listed(list, i) == \E j \in 1..Len(list) : list[j].id = candidates[i].id

\* C29: after analyze_pipeline's stuck detection, for every candidate fetched for a role
\* (with the is_stuck value the provider client set at construction from the raw stage
\* label), is_stuck is true iff the candidate is in that role's stuck_candidates list;
\* get_stuck_candidates never changes the flag of a candidate it does not return.
C29_FlagIffListed ==
    [][(stage_label = None /\ funnel_pc' = "done") =>
          \A i \in 1..Len(candidates) :
              /\ candidates'[i].is_stuck <=> Listed(stuck_list', i)
              /\ ~Listed(stuck_list', i) => candidates'[i] = candidates[i]]_vars
\* three candidates: one flagged at construction under its raw label and listed, one
\* under an alias the thresholds do not name, flagged only by get_stuck_candidates, and
\* one at the threshold, neither flagged nor listed
C29_Witness ==
    /\ funnel_pc = "done" /\ stage_label = None /\ Len(candidates) = 3
    /\ Len(stuck_list) = 2
    /\ \E i, j, k \in 1..3 :
          /\ candidates[i].current_stage = "Recruiter Screen"
          /\ candidates[i].days_in_stage = 6
          /\ FetchedCandidate(i, "Recruiter Screen", [hours |-> 144]).is_stuck
          /\ candidates[i].is_stuck
          /\ candidates[j].current_stage = "Hiring Manager Screen"
          /\ candidates[j].days_in_stage = 8
          /\ ~FetchedCandidate(j, "Hiring Manager Screen", [hours |-> 200]).is_stuck
          /\ candidates[j].is_stuck
          /\ candidates[k].current_stage = "Recruiter Screen"
          /\ candidates[k].days_in_stage = 5
          /\ ~candidates[k].is_stuck

\* ---------- C22: save_daily_recommendations run twice ----------
\* what the store holds for a date, by content: get_recommendations_for_date without ids
StoredFor(table, d) ==
    LET OfDate(row) == row.recommendation_date = isoformat(d)
        rows == SelectSeq(table, OfDate)
    IN  [i \in 1..Len(rows) |->
            Recommendation(rows[i].for_whom, rows[i].priority, rows[i].category,
                           rows[i].insight, rows[i].action)]

\* C22: persisting the recommendations generated today is idempotent: running
\* save_daily_recommendations twice on the same day with the same pipeline and sourcing
\* data leaves the stored set of recommendations for that date the same as running it
\* once.
C22_SaveIsIdempotent ==
    [][(recs_pc = "saved" /\ recs_pc' = "saved again") =>
          StoredFor(daily_recommendations', Today) = StoredFor(daily_recommendations, Today)]_vars
\* after the second run on the same pipeline and store every recommendation of the first
\* run is stored twice
C22_Witness ==
    /\ recs_pc = "saved again"
    /\ Len(recommendations) > 0
    /\ Len(daily_recommendations) = 2 * Len(recommendations)
    /\ \A i \in 1..Len(recommendations) :
          /\ StoredFor(daily_recommendations, Today)[i] = recommendations[i]
          /\ StoredFor(daily_recommendations, Today)[Len(recommendations) + i]
                = recommendations[i]

\* ---------- C24: a listing that fails during analyze_pipeline ----------
ListingFailed(i) == provider_calls[i].outcome = "error"

\* C24: when the job listing or the candidate listing of a role fails during
\* analyze_pipeline, the run ends in that single failure: the failed call is the last call
\* made, no call is made twice, no PipelineSnapshot is returned and the allocation is never
\* computed from a part of the roles; a snapshot that is returned holds every active job
\* and followed no failure.
C24_FailureAbortsRun ==
    /\ \A i \in 1..Len(provider_calls) :
          ListingFailed(i) =>
              /\ i = Len(provider_calls)
              /\ run_pc = "failed"
              /\ run_snapshot = None
    /\ \A i, j \in 1..Len(provider_calls) :
          i < j => \/ provider_calls[i].endpoint # provider_calls[j].endpoint
                   \/ provider_calls[i].job_id # provider_calls[j].job_id
    /\ run_pc = "failed" =>
          /\ run_snapshot = None
          /\ provider_calls # << >>
          /\ ListingFailed(Len(provider_calls))
    /\ run_snapshot # None =>
          /\ Len(run_snapshot.roles) = Len(active_jobs)
          /\ Len(provider_calls) = 1 + Len(active_jobs)
\* the candidate listing of the second active job failed after the first role was built
C24_Witness ==
    /\ run_pc = "failed"
    /\ Len(active_jobs) >= 2
    /\ Len(run_roles) = 1
    /\ Len(provider_calls) = 3
    /\ provider_calls[3].endpoint = "application.list"
    /\ ListingFailed(3)
    /\ run_snapshot = None

\* ---------- C25: the shape of a returned PipelineSnapshot ----------
\* the candidates the provider holds for a job under a canonical stage
ProviderCount(id, stage_name) ==
    LET applications == provider.jobs[id].applications
    IN  Cardinality({k \in 1..Len(applications) :
                        /\ applications[k][3] # "Archived"
                        /\ normalize_stage(applications[k][1]) = stage_name})
\* the open jobs of the provider whose title holds an active title
ProviderActive ==
    {i \in 1..Len(provider.jobs) :
        /\ provider.jobs[i].status = "Open"
        /\ provider.jobs[i].title \in
              {"Senior Full Stack Engineer", "Senior AI Engineer", "GTM Engineer",
               "staff gtm engineer (EMEA)"}}

\* C25: in every PipelineSnapshot analyze_pipeline returns the roles are sorted ascending by
\* priority, roles of equal priority in the order the provider listed their jobs; there is
\* one RolePipeline per active job of the provider; each has exactly the six canonical
\* stages in funnel order, with count 0 for a stage without candidates; and
\* sourcing_allocation is the allocation of that complete list.
C25_SnapshotShape ==
    run_snapshot # None =>
        LET roles == run_snapshot.roles
        IN  /\ \A i, j \in 1..Len(roles) :
                  i < j => \/ roles[i].priority < roles[j].priority
                           \/ /\ roles[i].priority = roles[j].priority
                              /\ roles[i].job_id < roles[j].job_id
            /\ Len(roles) = Cardinality(ProviderActive)
            /\ {roles[i].job_id : i \in 1..Len(roles)} = ProviderActive
            /\ \A i \in 1..Len(roles) :
                  /\ Len(roles[i].stages) = Len(pipeline_stages)
                  /\ \A k \in 1..Len(pipeline_stages) :
                        /\ roles[i].stages[k].name = pipeline_stages[k]
                        /\ roles[i].stages[k].count
                              = ProviderCount(roles[i].job_id, pipeline_stages[k])
                  /\ roles[i].job_title = provider.jobs[roles[i].job_id].title
            /\ run_snapshot.sourcing_allocation = calculate_sourcing_allocation(roles)
\* a returned snapshot whose sort moved a role forward and kept two roles of equal
\* priority in listing order, with a stage that has candidates and one that has none
C25_Witness ==
    /\ run_snapshot # None
    /\ Len(run_snapshot.roles) = 3
    /\ run_snapshot.roles[1].job_id = 3
    /\ run_snapshot.roles[2].priority = run_snapshot.roles[3].priority
    /\ run_snapshot.roles[2].job_id = 1
    /\ run_snapshot.roles[2].job_title # run_snapshot.roles[3].job_title
    /\ run_snapshot.roles[1].stages[1].count > 0
    /\ run_snapshot.roles[1].stages[3].count = 0
    /\ DOMAIN run_snapshot.sourcing_allocation
          = {run_snapshot.roles[i].job_title : i \in 1..3}
====
